---- MODULE Spec2Model ----
(***************************************************************************)
(* Model of the Teams private-chat exporter (device_chat_exporter.py,      *)
(* device_auth.py, attachment_downloader.py).                              *)
(*                                                                         *)
(* Spec        : one paginated traversal (get_my_chats or                  *)
(*               get_messages_from_chat) driving make_request.             *)
(* SpecResolve : one resolution of one structured attachment               *)
(*               (process_sharepoint_attachment) or one download_file of a *)
(*               heuristic URL, against a small file system.               *)
(*                                                                         *)
(* Optional values are sequences of length <= 1: <<>> is Python's None /   *)
(* an absent key, <<x>> a present value.  URLs of a traversal are page     *)
(* numbers, 0 standing for a missing @odata.nextLink; tokens are the       *)
(* ordinal of the login that minted them, 0 standing for None.  The clock  *)
(* counts tenths of a second.                                              *)
(***************************************************************************)
EXTENDS Integers, Sequences, FiniteSets, TLC

VARIABLES
    \* ---- DeviceCodeAuthenticator / exporter credentials
    access_token,   \* authenticator.access_token (0 = None)
    headers,        \* exporter.headers: the token its Authorization header carries
    minted,         \* number of _device_code_login calls that returned a token
    invalidated,    \* number of "access_token = None" assignments
    \* ---- the server and the wall clock
    pages,          \* the page chain served for the traversal's URLs
    clock,          \* tenths of a second
    \* ---- one traversal (get_my_chats / get_messages_from_chat)
    trav,           \* "none", "chats" or "messages"
    pc,             \* control point of the traversal / make_request
    url,            \* loop variable url (0 = falsy)
    params,         \* loop variable params (<<>> = None)
    result,         \* chats / messages accumulated so far
    data,           \* what make_request returned (<<>> = None)
    response,       \* the response make_request is looking at
    call,           \* arguments (url, params) of the running make_request
    depth,          \* nesting depth of the recursive make_request call
    nbad,           \* non-200 answers given so far (bounds the model)
    log,            \* every requests.get issued by make_request, in order
    \* ---- one attachment resolution (SpecResolve)
    impl,           \* "exporter" or "downloader": whose methods run
    rpc,            \* control point of the resolution
    attachment,     \* the structured attachment / URL match being resolved
    files,          \* attachments directory: file name -> content
    files0,         \* the directory as it was when the resolution began
    attempts,       \* every requests.get issued by download_file, in order
    ret,            \* (success, filepath) returned by the resolution
    \* ---- successive download_file calls on one directory (SpecSave)
    saves,          \* every download_file call made so far, in order
    \* ---- two interleaved download_file executions (SpecRace)
    procs,          \* per execution: position in download_file and its locals
    \* ---- extraction and download over the messages of one chat (SpecExtract)
    messages,       \* the messages of the chat, as get_messages_from_chat returned them
    runs,           \* what each call of extract_chat_attachments_info returned
    dl,             \* download_chat_attachments: position, work list and counts
    \* ---- a function applied to an argument (SpecSanitize)
    arg,            \* the argument
    answer,         \* the value returned, once the function has been applied
    calls,          \* the calls made to the authenticator's methods, in order (SpecAuth)
    \* ---- export_all (SpecExport)
    cfg,            \* the attributes of the config module
    server,         \* the chats on the server, each the list of its messages
    ex,             \* export_all: position, chat list, loop index and totals
    events          \* requests made and files written, in order, with their chat

authVars == <<access_token, headers, minted, invalidated>>
travVars == <<pages, clock, trav, pc, url, params, result, data, response, call, depth, nbad, log>>
resVars  == <<impl, rpc, attachment, files, files0, attempts, ret>>
saveVars == <<saves, procs>>
chatVars == <<messages, runs, dl>>
fnVars   == <<arg, answer, calls>>
expVars  == <<cfg, server, ex, events>>
extVars  == <<saveVars, chatVars, fnVars, expVars>>
vars     == <<authVars, travVars, resVars, extVars>>

----------------------------------------------------------------------------
(* Bounds of the model *)
MaxPages   == 3     \* pages in the chain
MaxBad     == 2     \* non-200 answers in one traversal

(* Program constants *)
DefaultRetryAfter == 60    \* response.headers.get('Retry-After', 60)
PageTop           == 50    \* '$top': 50
TicksPerSecond    == 10    \* clock unit: time.sleep(0.1) is one tick

None == <<>>
Some(x) == <<x>>

----------------------------------------------------------------------------
(* Payloads.  A page is the JSON document of a 200 answer: hasValue tells   *)
(* whether the 'value' key is present, nextLink is the page the             *)
(* '@odata.nextLink' key points at (0 = key absent).                        *)

PageValues == {<<>>, <<[id |-> 1]>>, <<[id |-> 2], [id |-> 1]>>}

PageChains ==
    UNION {
        { ch \in [1..n -> [hasValue : BOOLEAN, value : PageValues, nextLink : 0..n]] :
            \A i \in 1..n :
                /\ ch[i].nextLink = (IF i < n THEN i + 1 ELSE 0)
                /\ (~ch[i].hasValue => ch[i].value = <<>>) }
        : n \in 1..MaxPages }

\* data.get('value', [])
GetValue(d) == IF d.hasValue THEN d.value ELSE <<>>

\* data.get('@odata.nextLink')
GetNextLink(d) == d.nextLink

\* Python truthiness of the dict returned by response.json(): {} is falsy
Truthy(d) == d.hasValue \/ d.nextLink # 0

ChatParams == [expand |-> "members", top |-> PageTop]
MsgParams  == [top |-> PageTop, orderby |-> "createdDateTime desc"]

\* for msg in batch_messages: msg['chatInfo'] = chat_info; msg['sourceType'] = ...
TagMessage(msg) == [id |-> msg.id, chatInfo |-> "chat", sourceType |-> "private_chat"]

TagAll(batch) == [i \in 1..Len(batch) |-> TagMessage(batch[i])]

----------------------------------------------------------------------------
(* DeviceCodeAuthenticator *)

\* _device_code_login succeeding: a new token is minted and cached
LoginToken == minted + 1

----------------------------------------------------------------------------
(* Responses the server may give to one GET *)

RetryAfterHeaders == {None, Some(2)}

Response(status, retryAfter, body) ==
    [status |-> status, retryAfter |-> retryAfter, body |-> body]

\* status of an exchange in which requests.get raised instead of answering
RequestException == 0

\* a status other than 200, 429 and 401 (raise_for_status raises HTTPError)
ServerError == 500

NoResponse == Response(RequestException, None, None)

\* int(response.headers.get('Retry-After', 60)), in seconds
RetryAfterSeconds(r) ==
    IF r.retryAfter = None THEN DefaultRetryAfter ELSE r.retryAfter[1]

----------------------------------------------------------------------------
(* The traversals: get_my_chats and get_messages_from_chat *)

\* get_my_chats, up to its while loop
get_my_chats ==
    /\ trav = "none"
    /\ trav' = "chats"
    /\ url' = 1
    /\ params' = Some(ChatParams)
    /\ result' = <<>>
    /\ pc' = "loop"
    /\ UNCHANGED <<extVars, authVars, resVars, pages, clock, data, response, call, depth, nbad, log>>

\* get_messages_from_chat, up to its while loop
get_messages_from_chat ==
    /\ trav = "none"
    /\ trav' = "messages"
    /\ url' = 1
    /\ params' = Some(MsgParams)
    /\ result' = <<>>
    /\ pc' = "loop"
    /\ UNCHANGED <<extVars, authVars, resVars, pages, clock, data, response, call, depth, nbad, log>>

\* "while url:" entered: data = self.make_request(url, params)
CallMakeRequest ==
    /\ pc = "loop"
    /\ url # 0
    /\ call' = [url |-> url, params |-> params]
    /\ depth' = 1
    /\ pc' = "get"
    /\ UNCHANGED <<extVars, authVars, resVars, pages, clock, trav, url, params, result, data,
                   response, nbad, log>>

\* "while url:" left because url is falsy: return chats / messages
ReturnList ==
    /\ pc = "loop"
    /\ url = 0
    /\ pc' = "done"
    /\ UNCHANGED <<extVars, authVars, resVars, pages, clock, trav, url, params, result, data,
                   response, call, depth, nbad, log>>

\* What the server may answer to a GET of page u
Answers(u) ==
    {Response(200, None, Some(pages[u]))}
    \cup (IF nbad < MaxBad
          THEN {Response(429, h, None) : h \in RetryAfterHeaders}
               \cup {Response(401, None, None), Response(ServerError, None, None),
                     Response(RequestException, None, None)}
          ELSE {})

LogEntry(c, r) ==
    [url |-> c.url, params |-> c.params, auth |-> headers, at |-> clock,
     depth |-> depth, status |-> r.status, retryAfter |-> r.retryAfter,
     cached |-> access_token, minted |-> minted, invalidated |-> invalidated]

\* response = requests.get(url, headers=self.headers, params=params)
RequestsGet ==
    /\ pc = "get"
    /\ \E r \in Answers(call.url) :
        /\ response' = r
        /\ log' = Append(log, LogEntry(call, r))
        /\ nbad' = IF r.status = 200 THEN nbad ELSE nbad + 1
    /\ pc' = "handle"
    /\ UNCHANGED <<extVars, authVars, resVars, pages, clock, trav, url, params, result, data,
                   call, depth>>

SleepUntil_NoWait(seconds) == clock

\* time.sleep(retry_after)
SleepUntil(seconds) == clock + seconds * TicksPerSecond

On429_GiveUp ==
    /\ pc = "handle"
    /\ response.status = 429
    /\ data' = None
    /\ depth' = 0
    /\ pc' = "body"
    /\ UNCHANGED <<extVars, authVars, resVars, pages, clock, trav, url, params, result, response,
                   call, nbad, log>>

On429_DropParams ==
    /\ pc = "handle"
    /\ response.status = 429
    /\ clock' = SleepUntil(RetryAfterSeconds(response))
    /\ call' = [url |-> call.url, params |-> None]
    /\ depth' = depth + 1
    /\ pc' = "get"
    /\ UNCHANGED <<extVars, authVars, resVars, pages, trav, url, params, result, data, response,
                   nbad, log>>

\* status 429: sleep for Retry-After, then return self.make_request(url, params)
On429 ==
    /\ pc = "handle"
    /\ response.status = 429
    /\ clock' = SleepUntil(RetryAfterSeconds(response))
    /\ call' = [url |-> call.url, params |-> call.params]
    /\ depth' = depth + 1
    /\ pc' = "get"
    /\ UNCHANGED <<extVars, authVars, resVars, pages, trav, url, params, result, data, response,
                   nbad, log>>

On401_StaleHeaders ==
    /\ pc = "handle"
    /\ response.status = 401
    /\ invalidated' = invalidated + 1
    /\ minted' = minted + 1
    /\ access_token' = LoginToken
    /\ call' = [url |-> call.url, params |-> call.params]
    /\ depth' = depth + 1
    /\ pc' = "get"
    /\ UNCHANGED <<extVars, resVars, headers, pages, clock, trav, url, params, result, data,
                   response, nbad, log>>

\* status 401: access_token = None; headers = get_headers() (the login succeeds);
\* return self.make_request(url, params)
On401 ==
    /\ pc = "handle"
    /\ response.status = 401
    /\ invalidated' = invalidated + 1
    /\ minted' = minted + 1
    /\ access_token' = LoginToken
    /\ headers' = LoginToken
    /\ call' = [url |-> call.url, params |-> call.params]
    /\ depth' = depth + 1
    /\ pc' = "get"
    /\ UNCHANGED <<extVars, resVars, pages, clock, trav, url, params, result, data, response,
                   nbad, log>>

\* status 401, and _device_code_login raises: the Exception is no
\* RequestException, so it leaves make_request and the traversal
On401LoginFails ==
    /\ pc = "handle"
    /\ response.status = 401
    /\ invalidated' = invalidated + 1
    /\ access_token' = 0
    /\ depth' = 0
    /\ pc' = "raised"
    /\ UNCHANGED <<extVars, resVars, headers, minted, pages, clock, trav, url, params, result,
                   data, response, call, nbad, log>>

\* status 200: raise_for_status() passes, return response.json()
OnSuccess ==
    /\ pc = "handle"
    /\ response.status = 200
    /\ data' = response.body
    /\ depth' = 0
    /\ pc' = "body"
    /\ UNCHANGED <<extVars, authVars, resVars, pages, clock, trav, url, params, result, response,
                   call, nbad, log>>

OnError_Retries ==
    /\ pc = "handle"
    /\ response.status \notin {200, 429, 401}
    /\ call' = [url |-> call.url, params |-> call.params]
    /\ depth' = depth + 1
    /\ pc' = "get"
    /\ UNCHANGED <<extVars, authVars, resVars, pages, clock, trav, url, params, result, data,
                   response, nbad, log>>

\* any other status (raise_for_status raises HTTPError) or a RequestException
\* raised by requests.get: the except clause returns None
OnError ==
    /\ pc = "handle"
    /\ response.status \notin {200, 429, 401}
    /\ data' = None
    /\ depth' = 0
    /\ pc' = "body"
    /\ UNCHANGED <<extVars, authVars, resVars, pages, clock, trav, url, params, result, response,
                   call, nbad, log>>

Extend_Front(list, d) ==
    (IF trav = "messages" THEN TagAll(GetValue(d)) ELSE GetValue(d)) \o list

\* chats.extend(...) / messages.extend(batch_messages)
Extend(list, d) ==
    list \o (IF trav = "messages" THEN TagAll(GetValue(d)) ELSE GetValue(d))

LoopBody_NoBreak ==
    /\ pc = "body"
    /\ IF data = None \/ ~Truthy(data[1])
       THEN /\ pc' = "loop"
            /\ UNCHANGED <<url, params, result, clock>>
       ELSE /\ result' = Extend(result, data[1])
            /\ url' = GetNextLink(data[1])
            /\ params' = None
            /\ clock' = IF trav = "messages" /\ Len(result') > 0 THEN clock + 1 ELSE clock
            /\ pc' = "loop"
    /\ UNCHANGED <<extVars, authVars, resVars, pages, trav, data, response, call, depth, nbad, log>>

LoopBody_KeepParams ==
    /\ pc = "body"
    /\ IF data = None \/ ~Truthy(data[1])
       THEN /\ pc' = "done"
            /\ UNCHANGED <<url, params, result, clock>>
       ELSE /\ result' = Extend(result, data[1])
            /\ url' = GetNextLink(data[1])
            /\ params' = params
            /\ clock' = IF trav = "messages" /\ Len(result') > 0 THEN clock + 1 ELSE clock
            /\ pc' = "loop"
    /\ UNCHANGED <<extVars, authVars, resVars, pages, trav, data, response, call, depth, nbad, log>>

\* the loop body after make_request returned: "if not data: break", extend,
\* url = nextLink, params = None (and the 0.1 s pause of get_messages_from_chat)
LoopBody ==
    /\ pc = "body"
    /\ IF data = None \/ ~Truthy(data[1])
       THEN /\ pc' = "done"
            /\ UNCHANGED <<url, params, result, clock>>
       ELSE /\ result' = Extend(result, data[1])
            /\ url' = GetNextLink(data[1])
            /\ params' = None
            /\ clock' = IF trav = "messages" /\ Len(result') > 0 THEN clock + 1 ELSE clock
            /\ pc' = "loop"
    /\ UNCHANGED <<extVars, authVars, resVars, pages, trav, data, response, call, depth, nbad, log>>

----------------------------------------------------------------------------
(* File names.  A name is a sequence of one-character strings. *)

MaxNameLen == 200    \* if len(sanitized) > 200
KeepLen    == 190    \* name[:190] + ext

InvalidChars == {"<", ">", ":", "\"", "/", "\\", "|", "?", "*"}

\* re.sub(r'[<>:"/\\|?*]', '_', filename)
ReplaceInvalid(name) ==
    [i \in 1..Len(name) |-> IF name[i] \in InvalidChars THEN "_" ELSE name[i]]

\* str.rfind: the last position of character c in p, 0 when there is none
RFind(p, c) ==
    IF \E i \in 1..Len(p) : p[i] = c
    THEN CHOOSE i \in 1..Len(p) : p[i] = c /\ \A j \in (i + 1)..Len(p) : p[j] # c
    ELSE 0

\* os.path.splitext: split at the last dot of the last path component,
\* unless only dots precede it in that component
SplitExt(p) ==
    LET sepIndex == RFind(p, "/")
        dotIndex == RFind(p, ".")
    IN  IF dotIndex > sepIndex /\ \E i \in (sepIndex + 1)..(dotIndex - 1) : p[i] # "."
        THEN <<SubSeq(p, 1, dotIndex - 1), SubSeq(p, dotIndex, Len(p))>>
        ELSE <<p, <<>>>>

\* name[:n]
Prefix(name, n) == SubSeq(name, 1, IF Len(name) < n THEN Len(name) ELSE n)

sanitize_filename(filename) ==
    LET sanitized == ReplaceInvalid(filename)
    IN  IF Len(sanitized) > MaxNameLen
        THEN Prefix(SplitExt(sanitized)[1], KeepLen) \o SplitExt(sanitized)[2]
        ELSE sanitized

Digits == <<"0", "1", "2", "3", "4", "5", "6", "7", "8", "9">>

RECURSIVE DecStr(_)
\* str(counter) of the f-string
DecStr(n) ==
    IF n < 10 THEN <<Digits[n + 1]>> ELSE DecStr(n \div 10) \o <<Digits[(n % 10) + 1]>>

\* s.endswith(suffix)
EndsWith(s, suffix) ==
    /\ Len(s) >= Len(suffix)
    /\ SubSeq(s, Len(s) - Len(suffix) + 1, Len(s)) = suffix

\* f"{name}_{counter}{ext}" with name, ext = os.path.splitext(original_filepath)
Numbered(original, counter) ==
    SplitExt(original)[1] \o <<"_">> \o DecStr(counter) \o SplitExt(original)[2]

RECURSIVE Probe(_, _, _)
\* the while loop of download_file from its second test on
Probe(dir, original, counter) ==
    IF Numbered(original, counter) \in dir
    THEN Probe(dir, original, counter + 1)
    ELSE Numbered(original, counter)

FreePath_Original(dir, original) == original

\* counter = 1; while os.path.exists(filepath): filepath = ...; counter += 1
FreePath(dir, original) ==
    IF original \in dir THEN Probe(dir, original, 1) ELSE original

----------------------------------------------------------------------------
(* The attachments directory *)

EmptyDir == [n \in {} |-> <<>>]

\* open(filepath, 'wb') and the chunks written to it
WriteFile(dir, path, content) ==
    [n \in (DOMAIN dir) \cup {path} |-> IF n = path THEN content ELSE dir[n]]

----------------------------------------------------------------------------
(* References to resolve.  contentUrl is described by what the code reads of *)
(* it: whether it is non-empty, whether its host is the document-library     *)
(* vendor (a sharepoint.com host), whether 'sharepoint.com' occurs in it   *)
(* after the host (path or query), and unquote(basename(path)).              *)

MaxExisting == 2     \* files already in the directory when a resolution begins

NameA        == <<"a", ".", "p", "d", "f">>
NameOdd      == <<"a", "?", ".", "p", "d", "f">>
DefaultName  == <<"a", "r", "q", "u", "i", "v", "o", "_", "s", "e", "m", "_", "n", "o", "m", "e">>
DefaultId    == <<"u", "n", "k", "n", "o", "w", "n">>
PdfExt       == <<".", "p", "d", "f">>
ExtractedName == <<"a", "r", "q", "u", "i", "v", "o", "_", "e", "x", "t", "r", "a", "i", "d", "o", ".", "f", "i", "l", "e">>
DownloaderPrefix == <<"s", "h", "a", "r", "e", "p", "o", "i", "n", "t", "_", "f", "i", "l", "e", "_">>

BaseNames == {<<>>, NameA, NameOdd}

References ==
    { a \in [kind : {"reference", "url_file"}, hasUrl : BOOLEAN,
             host : {"vendor", "other"}, mention : BOOLEAN, basename : BaseNames,
             name : {None, Some(<<"d", "o", "c">>)}, id : {None, Some(<<"7">>)}] :
        /\ (~a.hasUrl => (a.host = "other" /\ ~a.mention /\ a.basename = <<>>))
        /\ (a.kind = "url_file" => (a.hasUrl /\ a.name = None /\ a.id = None)) }

\* 'sharepoint.com' in content_url
HasSharepoint(a) == a.hasUrl /\ (a.host = "vendor" \/ a.mention)

\* attachment.get(key, default)
GetOr(opt, default) == IF opt = None THEN default ELSE opt[1]

\* DeviceChatExporter.process_sharepoint_attachment: filename
ExporterFilename(a) ==
    IF a.basename # <<>>
    THEN a.basename
    ELSE LET fallback == GetOr(a.name, DefaultName) \o <<"_">> \o GetOr(a.id, DefaultId)
         IN  IF EndsWith(fallback, PdfExt) THEN fallback ELSE fallback \o PdfExt

\* AttachmentDownloader.process_sharepoint_attachment: filename
\* (attachment['id'] raises KeyError when the key is absent)
DownloaderRaises(a) == a.basename = <<>> /\ a.id = None

DownloaderFilename(a) ==
    IF a.basename # <<>>
    THEN a.basename
    ELSE DownloaderPrefix \o a.id[1] \o PdfExt

\* download_chat_attachments: filename_from_url
UrlFilename(a) == IF a.basename # <<>> THEN a.basename ELSE ExtractedName

Filename(a) ==
    IF a.kind = "url_file" THEN UrlFilename(a)
    ELSE IF impl = "downloader" THEN DownloaderFilename(a)
    ELSE ExporterFilename(a)

\* the directory a resolution may find: NameA and its first numbered variants
Existing(k) ==
    [n \in {IF i = 0 THEN NameA ELSE Numbered(NameA, i) : i \in 0..(k - 1)} |-> "old"]

----------------------------------------------------------------------------
(* download_file *)

Forbidden == 403
NotFound  == 404

\* what may come back from requests.get(url, headers=self.headers, stream=True):
\* a status, and for a 200 whether iter_content delivers the whole body
\* ("all") or raises after the file has been opened ("cut")
DownloadAnswers ==
    {[status |-> 200, stream |-> "all"], [status |-> 200, stream |-> "cut"],
     [status |-> Forbidden, stream |-> "none"], [status |-> NotFound, stream |-> "none"],
     [status |-> RequestException, stream |-> "none"]}

Body(form, r) == <<form, r.stream>>

DownloadInto_OpensFirst(dir, form, filename, r) ==
    LET path == FreePath(DOMAIN dir, sanitize_filename(filename))
    IN  [files |-> WriteFile(dir, path, Body(form, r)),
         success |-> r.status = 200 /\ r.stream = "all",
         filepath |-> IF r.status = 200 /\ r.stream = "all" THEN Some(path) ELSE None]

\* download_file(url, filename, attachments_dir) when the request is answered r
\* and the directory holds dir: the directory afterwards and the pair returned
DownloadInto(dir, form, filename, r) ==
    IF r.status = 200
    THEN LET path == FreePath(DOMAIN dir, sanitize_filename(filename))
         IN  [files |-> WriteFile(dir, path, Body(form, r)),
              success |-> r.stream = "all",
              filepath |-> IF r.stream = "all" THEN Some(path) ELSE None]
    ELSE [files |-> dir, success |-> FALSE, filepath |-> None]

\* download_file on the directory of the current resolution
download_file(form, filename, r) == DownloadInto(files, form, filename, r)

Attempt_FirstToken(form, r) ==
    [form |-> form, status |-> r.status, stream |-> r.stream, auth |-> 1]

\* requests.get(url, headers=self.headers, stream=True) and its answer
Attempt(form, r) ==
    [form |-> form, status |-> r.status, stream |-> r.stream, auth |-> headers]

Returns(ok, path) == Some([success |-> ok, filepath |-> path])

----------------------------------------------------------------------------
(* DeviceChatExporter.process_sharepoint_attachment *)

FirstStep_Direct(a) == "try2"

\* "if 'sharepoint.com' in content_url:" ... "else: success = False"
FirstStep(a) == IF HasSharepoint(a) THEN "try1" ELSE "try2"

NextAfter1_Stop(ok) == "returned"

\* "if not success:" after the shared-item attempt
NextAfter1(ok) == IF ok THEN "returned" ELSE "try2"

NextAfter2_Always(ok, a) == IF HasSharepoint(a) THEN "try3" ELSE "returned"

\* "if not success and 'sharepoint.com' in content_url:" after the direct attempt
NextAfter2(ok, a) == IF ~ok /\ HasSharepoint(a) THEN "try3" ELSE "returned"

\* content_url empty: return False, None; otherwise choose the first attempt
ExporterStart ==
    /\ rpc = "start"
    /\ impl = "exporter"
    /\ attachment[1].kind = "reference"
    /\ IF attachment[1].hasUrl
       THEN /\ rpc' = FirstStep(attachment[1])
            /\ ret' = ret
       ELSE /\ rpc' = "returned"
            /\ ret' = Returns(FALSE, None)
    /\ UNCHANGED <<extVars, authVars, travVars, impl, attachment, files, files0, attempts>>

\* one call of download_file made by the resolver at control point `at`
TryStep(at, form, r, next) ==
    /\ rpc = at
    /\ attempts' = Append(attempts, Attempt(form, r))
    /\ files' = download_file(form, Filename(attachment[1]), r).files
    /\ rpc' = next
    /\ ret' = IF next = "returned"
              THEN Returns(download_file(form, Filename(attachment[1]), r).success,
                           download_file(form, Filename(attachment[1]), r).filepath)
              ELSE ret
    /\ UNCHANGED <<extVars, authVars, travVars, impl, attachment, files0>>

\* attempt 1: GRAPH_ENDPOINT/shares/u!{base64 of content_url}/driveItem/content
ExporterTry1 ==
    /\ impl = "exporter"
    /\ \E r \in DownloadAnswers :
        TryStep("try1", "shares", r,
                NextAfter1(download_file("shares", Filename(attachment[1]), r).success))

\* attempt 2: content_url itself
ExporterTry2 ==
    /\ impl = "exporter"
    /\ \E r \in DownloadAnswers :
        TryStep("try2", "direct", r,
                NextAfter2(download_file("direct", Filename(attachment[1]), r).success,
                           attachment[1]))

\* attempt 3: GRAPH_ENDPOINT/me/drive/root:{path}:/content
ExporterTry3 ==
    /\ impl = "exporter"
    /\ \E r \in DownloadAnswers : TryStep("try3", "drive", r, "returned")

\* download_chat_attachments: one heuristic URL match, fetched by download_file
UrlFileDownload ==
    /\ rpc = "start"
    /\ impl = "exporter"
    /\ attachment[1].kind = "url_file"
    /\ \E r \in DownloadAnswers : TryStep("start", "direct", r, "returned")

----------------------------------------------------------------------------
(* AttachmentDownloader.process_sharepoint_attachment *)

\* "if content_url and 'sharepoint.com' in content_url:" ... else return False, None
DownloaderStart ==
    /\ rpc = "start"
    /\ impl = "downloader"
    /\ IF HasSharepoint(attachment[1])
       THEN /\ rpc' = IF DownloaderRaises(attachment[1]) THEN "raised" ELSE "dtry2"
            /\ ret' = ret
       ELSE /\ rpc' = "returned"
            /\ ret' = Returns(FALSE, None)
    /\ UNCHANGED <<extVars, authVars, travVars, impl, attachment, files, files0, attempts>>

\* the direct attempt; "if not success:" leads to the drive-path attempt
DownloaderTry2 ==
    /\ impl = "downloader"
    /\ \E r \in DownloadAnswers :
        TryStep("dtry2", "direct", r,
                IF download_file("direct", Filename(attachment[1]), r).success
                THEN "returned" ELSE "dtry3")

\* the drive-path attempt
DownloaderTry3 ==
    /\ impl = "downloader"
    /\ \E r \in DownloadAnswers : TryStep("dtry3", "drive", r, "returned")

----------------------------------------------------------------------------
(* Message bodies.  A body is the sequence of its characters; the regular  *)
(* expressions of the extraction are computed on it as re computes them.   *)

\* the characters of a string
Chars(s) == [i \in 1..Len(s) |-> SubSeq(s, i, i)]

Quote == "\""

UpperCase == Chars("ABCDEFGHIJKLMNOPQRSTUVWXYZ")
LowerCase == Chars("abcdefghijklmnopqrstuvwxyz")

LowerMap ==
    [c \in {UpperCase[k] : k \in 1..Len(UpperCase)} |->
        LowerCase[CHOOSE k \in 1..Len(UpperCase) : UpperCase[k] = c]]

\* re.IGNORECASE compares characters by their lower case
Lower(c) == IF c \in DOMAIN LowerMap THEN LowerMap[c] ELSE c

Min(S) == CHOOSE x \in S : \A y \in S : x <= y
Max(S) == CHOOSE x \in S : \A y \in S : x >= y

\* the literal lit occurs in s at position i
StartsAt(s, i, lit) ==
    /\ i >= 1
    /\ i + Len(lit) - 1 <= Len(s)
    /\ \A k \in 1..Len(lit) : s[i + k - 1] = lit[k]

StartsAtNoCase(s, i, lit) ==
    /\ i >= 1
    /\ i + Len(lit) - 1 <= Len(s)
    /\ \A k \in 1..Len(lit) : Lower(s[i + k - 1]) = Lower(lit[k])

\* lit in s
Contains(s, lit) == \E i \in 1..Len(s) : StartsAt(s, i, lit)

\* where a run [^"]* that starts at i has to stop: the next quote, or the end
NextQuote(s, i) == Min({j \in i..Len(s) : s[j] = Quote} \cup {Len(s) + 1})

HostedPrefix == Chars("https://graph.microsoft.com/v1.0/chats/")
HostedMiddle == Chars("/hostedContents/")
HostedSuffix == Chars("/$value")

\* r'https://graph\.microsoft\.com/v1\.0/chats/[^"]+/hostedContents/[^"]+/\$value'
\* tried at position i: the position of the last character matched, 0 for no
\* match; both runs are greedy
HostedEnd(s, i) ==
    IF ~StartsAt(s, i, HostedPrefix) THEN 0
    ELSE LET from == i + Len(HostedPrefix)
             q == NextQuote(s, from)
             Ends(a) == {b \in (a + Len(HostedMiddle) + 1)..(q - Len(HostedSuffix)) :
                            StartsAt(s, b, HostedSuffix)}
             Mids == {a \in (from + 1)..(q - 1) :
                            StartsAt(s, a, HostedMiddle) /\ Ends(a) # {}}
         IN  IF Mids = {} THEN 0
             ELSE Max(Ends(Max(Mids))) + Len(HostedSuffix) - 1

Https == Chars("https://")

\* (?:pdf|doc|docx|xls|xlsx|ppt|pptx|zip|rar|txt), tried in this order
Extensions ==
    <<Chars("pdf"), Chars("doc"), Chars("docx"), Chars("xls"), Chars("xlsx"),
      Chars("ppt"), Chars("pptx"), Chars("zip"), Chars("rar"), Chars("txt")>>

ExtensionsAt(s, i) == {k \in 1..Len(Extensions) : StartsAtNoCase(s, i, Extensions[k])}

\* r'https://[^"]*\.(?:pdf|...|txt)' tried at position i
ExtensionEnd(s, i) ==
    IF ~StartsAtNoCase(s, i, Https) THEN 0
    ELSE LET from == i + Len(Https)
             q == NextQuote(s, from)
             Dots == {d \in from..(q - 1) : s[d] = "." /\ ExtensionsAt(s, d + 1) # {}}
         IN  IF Dots = {} THEN 0
             ELSE Max(Dots) + Len(Extensions[Min(ExtensionsAt(s, Max(Dots) + 1))])

Sharepoint == Chars("sharepoint")
Onedrive   == Chars("onedrive")

\* r'https://[^"]*sharepoint[^"]*' and r'https://[^"]*onedrive[^"]*' at position i
KeywordEnd(s, i, keyword) ==
    IF ~StartsAtNoCase(s, i, Https) THEN 0
    ELSE LET from == i + Len(Https)
             q == NextQuote(s, from)
         IN  IF \E k \in from..(q - 1) : StartsAtNoCase(s, k, keyword)
             THEN q - 1
             ELSE 0

\* file_patterns, in the order of the list
file_patterns == <<"extension", "sharepoint", "onedrive">>

MatchEnd(pattern, s, i) ==
    CASE pattern = "hosted"     -> HostedEnd(s, i)
      [] pattern = "extension"  -> ExtensionEnd(s, i)
      [] pattern = "sharepoint" -> KeywordEnd(s, i, Sharepoint)
      [] pattern = "onedrive"   -> KeywordEnd(s, i, Onedrive)

RECURSIVE FindAllFrom(_, _, _)
\* re.findall: matches from left to right, the scan resuming after each match
FindAllFrom(pattern, s, i) ==
    LET starts == {j \in i..Len(s) : MatchEnd(pattern, s, j) # 0}
    IN  IF starts = {} THEN <<>>
        ELSE <<SubSeq(s, Min(starts), MatchEnd(pattern, s, Min(starts)))>>
                \o FindAllFrom(pattern, s, MatchEnd(pattern, s, Min(starts)) + 1)

FindAll(pattern, s) == FindAllFrom(pattern, s, 1)

ItemIdAttr == Chars("itemid=\"")

\* re.search(r'itemid="([^"]+)"', message_content): group(1) of the first match
ItemMatch(s) ==
    LET At == {i \in 1..Len(s) :
                  /\ StartsAt(s, i, ItemIdAttr)
                  /\ NextQuote(s, i + Len(ItemIdAttr)) > i + Len(ItemIdAttr)
                  /\ NextQuote(s, i + Len(ItemIdAttr)) <= Len(s)}
    IN  IF At = {} THEN None
        ELSE Some(SubSeq(s, Min(At) + Len(ItemIdAttr),
                         NextQuote(s, Min(At) + Len(ItemIdAttr)) - 1))

RECURSIVE Split(_, _)
\* str.split(c)
Split(s, c) ==
    IF \A i \in 1..Len(s) : s[i] # c THEN <<s>>
    ELSE LET i == Min({j \in 1..Len(s) : s[j] = c})
         IN  <<SubSeq(s, 1, i - 1)>> \o Split(SubSeq(s, i + 1, Len(s)), c)

ImagePrefix == Chars("image_")
JpgExt      == Chars(".jpg")

HostedFilename_FromUrl(message_content, match) ==
    ImagePrefix \o Split(match, "/")[Len(Split(match, "/")) - 2] \o JpgExt

\* filename of one hosted image found in message_content
HostedFilename(message_content, match) ==
    IF ItemMatch(message_content) # None
    THEN ImagePrefix \o ItemMatch(message_content)[1] \o JpgExt
    ELSE LET url_parts == Split(match, "/")
         IN  ImagePrefix \o url_parts[Len(url_parts) - 2] \o JpgExt

extract_hosted_content_urls(message_content) ==
    LET matches == FindAll("hosted", message_content)
    IN  [k \in 1..Len(matches) |->
            [url |-> matches[k], filename |-> HostedFilename(message_content, matches[k])]]

\* position of the first character of s, at or after i, that is in set cs
FirstOf(s, i, cs) == Min({j \in i..Len(s) : s[j] \in cs} \cup {Len(s) + 1})

\* urlparse(url).path of an https URL: what follows the host up to the first
\* '?' or '#', less the ';parameters' of its last segment
UrlPath(u) ==
    LET host == Len(Https) + 1
        from == FirstOf(u, host, {"/", "?", "#"})
        to   == FirstOf(u, from, {"?", "#"})
        full == SubSeq(u, from, to - 1)
        semi == FirstOf(full, RFind(full, "/") + 1, {";"})
    IN  SubSeq(full, 1, semi - 1)

\* os.path.basename
Basename(p) == SubSeq(p, RFind(p, "/") + 1, Len(p))

EscapedSpace == Chars("%20")

RECURSIVE Unquote(_)
\* urllib.parse.unquote, for the escape the bodies use
Unquote(s) ==
    IF s = <<>> THEN <<>>
    ELSE IF StartsAt(s, 1, EscapedSpace)
         THEN <<" ">> \o Unquote(SubSeq(s, Len(EscapedSpace) + 1, Len(s)))
         ELSE <<s[1]>> \o Unquote(SubSeq(s, 2, Len(s)))

HostedMarker == Chars("hostedContents")

\* filename_from_url of a heuristic match
filename_from_url(match) ==
    IF Unquote(Basename(UrlPath(match))) # <<>>
    THEN Unquote(Basename(UrlPath(match)))
    ELSE ExtractedName

Kept_All(match) == TRUE

\* if 'hostedContents' not in match
Kept(match) == ~Contains(match, HostedMarker)

\* the matches of all file patterns that are kept, pattern by pattern
RECURSIVE FileMatchesFrom(_, _)
FileMatchesFrom(body_content, k) ==
    IF k > Len(file_patterns) THEN <<>>
    ELSE SelectSeq(FindAll(file_patterns[k], body_content), Kept)
            \o FileMatchesFrom(body_content, k + 1)

FileMatches(body_content) == FileMatchesFrom(body_content, 1)

----------------------------------------------------------------------------
(* Messages.  A key of a JSON object whose value is an object or a list is *)
(* a record telling whether the key is absent, null or has a value; a key  *)
(* whose value is a string is the characters, or one of two markers.       *)

Absent   == [is |-> "absent", val |-> <<>>]
Null     == [is |-> "null", val |-> <<>>]
Value(v) == [is |-> "value", val |-> v]

\* dict.get(key, default): the default only replaces an absent key
Get(field, default) == IF field.is = "absent" THEN Value(default) ELSE field

Missing   == <<"absent">>     \* string key absent
NoneValue == <<"None">>       \* string key present with value null

GetText(v, default) == IF v = Missing THEN default ELSE v

\* truthiness of a string or None
NonEmpty(v) == v # NoneValue /\ v # <<>>

ChatId  == "19:a@thread.v2"
HostedUrl(h) ==
    "https://graph.microsoft.com/v1.0/chats/" \o ChatId \o "/hostedContents/" \o h \o "/$value"

Hosted1 == HostedUrl("h1")
Hosted2 == HostedUrl("h2")
\* a hosted content whose opaque id happens to contain a keyword of the file patterns
Hosted3 == HostedUrl("onedrive7")
LibraryUrl == "https://contoso.sharepoint.com/s/a.pdf"
OtherUrl   == "https://files.example.com/r.docx"

Img(u, itemid) == "<img src=\"" \o u \o "\" itemid=\"" \o itemid \o "\">"
ImgBare(u)     == "<img src=\"" \o u \o "\">"
Link(u)        == "<a href=\"" \o u \o "\">file</a>"

BodyPlain    == Chars("<p>hi</p>")
BodyImage    == Chars(Img(Hosted1, "i1"))
BodyBare     == Chars(ImgBare(Hosted1))
BodyTwo      == Chars(Img(Hosted1, "i1") \o Img(Hosted2, "i2"))
BodyLink     == Chars(Link(OtherUrl))
BodyLibrary  == Chars(Link(LibraryUrl))
BodyMixed    == Chars(Link(OtherUrl) \o Img(Hosted1, "i1"))
BodyKeyword  == Chars(Img(Hosted3, "i3"))

ReferenceAttachment ==
    [id |-> Chars("r1"), name |-> Chars("a.pdf"),
     contentType |-> Chars("reference"), contentUrl |-> Chars(LibraryUrl)]

\* a card: no contentUrl, name null
CardAttachment ==
    [id |-> Missing, name |-> NoneValue,
     contentType |-> Chars("application/vnd.microsoft.card.adaptive"),
     contentUrl |-> Missing]

Ana == Value(Chars("Ana"))

Message(from, attachments, body) ==
    [id |-> "", from |-> from, attachments |-> attachments, body |-> body]

\* the messages a chat may hold; the last two carry a null list or object
MessageKinds ==
    {Message(Ana, Value(<<ReferenceAttachment>>), Value(BodyImage)),
     Message(Ana, Absent, Value(BodyLibrary)),
     Message(Ana, Value(<<CardAttachment, ReferenceAttachment>>), Value(BodyMixed)),
     Message(Null, Value(<<>>), Value(BodyPlain)),
     Message(Ana, Absent, Absent),
     Message(Ana, Value(<<>>), Value(BodyKeyword)),
     Message(Ana, Value(<<>>), Null),
     Message(Ana, Null, Value(BodyLink))}

MaxMessages == 2     \* messages in one chat

MessageIds == <<"m1", "m2", "m3", "m4">>

\* chats of up to MaxMessages messages, the k-th with id MessageIds[k]
MessageLists ==
    UNION { { [k \in 1..n |-> [kinds[k] EXCEPT !.id = MessageIds[k]]] :
                kinds \in [1..n -> MessageKinds] } : n \in 0..MaxMessages }

\* 'Usuário desconhecido', written without the accent
UnknownUser == Chars("Usuario desconhecido")

\* from_user of extract_chat_attachments_info
FromUser(message) ==
    IF message.from.is = "value" THEN message.from.val ELSE UnknownUser

AttPrefix == Chars("att_")
UrlPrefix == Chars("url_")
NoName    == Chars("Sem nome")

\* 1. one structured attachment, idx counted from 0
StructuredInfo(message, idx, a) ==
    [tipo |-> "attachment", message_id |-> message.id, from_user |-> FromUser(message),
     attachment_id |-> GetText(a.id, AttPrefix \o DecStr(idx)),
     attachment_name |-> GetText(a.name, NoName),
     content_type |-> GetText(a.contentType, <<>>),
     content_url |-> GetText(a.contentUrl, <<>>)]

\* 2. one image incorporated in the body
HostedInfo(message, image) ==
    [tipo |-> "hosted_image", message_id |-> message.id, from_user |-> FromUser(message),
     attachment_id |-> image.filename, attachment_name |-> image.filename,
     content_type |-> Chars("image"), content_url |-> image.url]

\* 3. one file link of the body, n references being catalogued before it
UrlInfo(message, match, n) ==
    [tipo |-> "url_file", message_id |-> message.id, from_user |-> FromUser(message),
     attachment_id |-> UrlPrefix \o DecStr(n),
     attachment_name |-> filename_from_url(match),
     content_type |-> Chars("file_url"), content_url |-> match]

\* message.get('body', {}).get('content', '') when body is not null
BodyContent(message) == Get(message.body, <<>>).val

UrlsThenImages(structured, images, urls) == structured \o urls \o images

\* the order in which one message's references are appended
InfoOrder(structured, images, urls) == structured \o images \o urls

\* the references of one message, n references being catalogued before it
MessageInfo(message, n) ==
    LET attachments == Get(message.attachments, <<>>).val
        structured == [k \in 1..Len(attachments) |->
                          StructuredInfo(message, k - 1, attachments[k])]
        body_content == BodyContent(message)
        found == IF body_content # <<>>
                 THEN extract_hosted_content_urls(body_content) ELSE <<>>
        images == [k \in 1..Len(found) |-> HostedInfo(message, found[k])]
        matches == IF body_content # <<>> THEN FileMatches(body_content) ELSE <<>>
        urls == [k \in 1..Len(matches) |->
                    UrlInfo(message, matches[k],
                            n + Len(structured) + Len(images) + k - 1)]
    IN  InfoOrder(structured, images, urls)

\* enumerate(None) and None.get(...) raise
MessageRaises(message) ==
    message.attachments.is = "null" \/ message.body.is = "null"

RECURSIVE ExtractFrom(_, _, _)
ExtractFrom(msgs, k, attachments_info) ==
    IF k > Len(msgs) THEN attachments_info
    ELSE ExtractFrom(msgs, k + 1,
                     attachments_info \o MessageInfo(msgs[k], Len(attachments_info)))

\* extract_chat_attachments_info(messages): the list returned, unless a
\* message makes it raise
extract_chat_attachments_info(msgs) ==
    IF \E k \in 1..Len(msgs) : MessageRaises(msgs[k])
    THEN [raised |-> TRUE, attachments_info |-> <<>>]
    ELSE [raised |-> FALSE, attachments_info |-> ExtractFrom(msgs, 1, <<>>)]

----------------------------------------------------------------------------
(* Specification of the extraction: extract_chat_attachments_info called   *)
(* on the messages of one chat, more than once                             *)

MaxRuns == 2         \* calls of extract_chat_attachments_info
MaxFailures == 1     \* failed calls and failed resolutions in one export_all

DlIdle ==
    [pc |-> "idle", chat |-> 0, items |-> <<>>, raises |-> FALSE, pos |-> 0,
     downloaded |-> 0, failed |-> 0]

Extract_Fetching ==
    /\ Len(runs) < MaxRuns
    /\ dl.pc # "loop"
    /\ runs' = Append(runs, extract_chat_attachments_info(messages))
    /\ attempts' = Append(attempts, Attempt("direct", [status |-> 200, stream |-> "all"]))
    /\ UNCHANGED <<authVars, travVars, impl, rpc, attachment, files, files0, ret,
                   saveVars, messages, dl, fnVars, expVars>>

Extract ==
    /\ Len(runs) < MaxRuns
    /\ dl.pc # "loop"
    /\ runs' = Append(runs, extract_chat_attachments_info(messages))
    /\ UNCHANGED <<authVars, travVars, resVars, saveVars, messages, dl, fnVars, expVars>>

----------------------------------------------------------------------------
(* download_chat_attachments *)

SharepointCom == Chars("sharepoint.com")
ReferenceType == Chars("reference")

\* the characters of the host of an https URL
UrlHost(u) == SubSeq(u, Len(Https) + 1, FirstOf(u, Len(Https) + 1, {"/", "?", "#"}) - 1)

\* attachment.get(key, default) inside an f-string: None is printed as 'None'
Printed(v) == IF v = Missing THEN None ELSE IF v = NoneValue THEN Some(Chars("None")) ELSE Some(v)

\* what process_sharepoint_attachment reads of a structured attachment
ToReference(a) ==
    LET content_url == GetText(a.contentUrl, <<>>)
    IN  IF ~NonEmpty(content_url)
        THEN [kind |-> "reference", hasUrl |-> FALSE, host |-> "other", mention |-> FALSE,
              basename |-> <<>>, name |-> Printed(a.name), id |-> Printed(a.id)]
        ELSE [kind |-> "reference", hasUrl |-> TRUE,
              host |-> IF Contains(UrlHost(content_url), SharepointCom)
                       THEN "vendor" ELSE "other",
              mention |-> /\ Contains(content_url, SharepointCom)
                          /\ ~Contains(UrlHost(content_url), SharepointCom),
              basename |-> Unquote(Basename(UrlPath(content_url))),
              name |-> Printed(a.name), id |-> Printed(a.id)]

\* what download_chat_attachments reads of a file link of the body
ToUrlFile(match) ==
    [kind |-> "url_file", hasUrl |-> TRUE,
     host |-> IF Contains(UrlHost(match), SharepointCom) THEN "vendor" ELSE "other",
     mention |-> Contains(match, SharepointCom) /\ ~Contains(UrlHost(match), SharepointCom),
     basename |-> Unquote(Basename(UrlPath(match))), name |-> None, id |-> None]

IsReference_Any(a) == TRUE

\* content_type == 'reference'
IsReference(a) == GetText(a.contentType, <<>>) = ReferenceType

RECURSIVE PlanFrom(_, _)
\* the downloads download_chat_attachments makes for messages k.., in order,
\* and whether a message then makes it raise
PlanFrom(msgs, k) ==
    IF k > Len(msgs) THEN [items |-> <<>>, raises |-> FALSE]
    ELSE IF msgs[k].attachments.is = "null" THEN [items |-> <<>>, raises |-> TRUE]
    ELSE LET attachments == SelectSeq(Get(msgs[k].attachments, <<>>).val, IsReference)
             structured == [j \in 1..Len(attachments) |-> ToReference(attachments[j])]
         IN  IF msgs[k].body.is = "null" THEN [items |-> structured, raises |-> TRUE]
             ELSE LET matches == FileMatches(BodyContent(msgs[k]))
                      urls == [j \in 1..Len(matches) |-> ToUrlFile(matches[j])]
                      rest == PlanFrom(msgs, k + 1)
                  IN  [items |-> structured \o urls \o rest.items, raises |-> rest.raises]

\* the answers given to the downloads of a whole chat
ChatAnswers == {[status |-> 200, stream |-> "all"], [status |-> NotFound, stream |-> "none"]}

Attempts == <<"try1", "try2", "try3">>
FormAt(at) == CASE at = "try1" -> "shares" [] at = "try2" -> "direct" [] at = "try3" -> "drive"
AnswerAt(at, rs) == rs[CHOOSE n \in 1..Len(Attempts) : Attempts[n] = at]

RECURSIVE ResolveFrom(_, _, _, _, _)
\* process_sharepoint_attachment from attempt `at` on, its requests answered rs
ResolveFrom(at, a, dir, rs, made) ==
    LET out == DownloadInto(dir, FormAt(at), Filename(a), AnswerAt(at, rs))
        now == Append(made, Attempt(FormAt(at), AnswerAt(at, rs)))
        next == CASE at = "try1" -> NextAfter1(out.success)
                  [] at = "try2" -> NextAfter2(out.success, a)
                  [] at = "try3" -> "returned"
    IN  IF next = "returned"
        THEN [files |-> out.files, success |-> out.success, filepath |-> out.filepath,
              attempts |-> now]
        ELSE ResolveFrom(next, a, out.files, rs, now)

\* process_sharepoint_attachment(attachment, attachments_dir)
process_sharepoint_attachment(a, dir, rs) ==
    IF ~a.hasUrl
    THEN [files |-> dir, success |-> FALSE, filepath |-> None, attempts |-> <<>>]
    ELSE ResolveFrom(FirstStep(a), a, dir, rs, <<>>)

\* one download of download_chat_attachments: a reference attachment, or a
\* file link fetched by download_file
ResolveItem(a, dir, rs) ==
    IF a.kind = "reference"
    THEN process_sharepoint_attachment(a, dir, rs)
    ELSE [files |-> DownloadInto(dir, "direct", Filename(a), rs[1]).files,
          success |-> DownloadInto(dir, "direct", Filename(a), rs[1]).success,
          filepath |-> DownloadInto(dir, "direct", Filename(a), rs[1]).filepath,
          attempts |-> <<Attempt("direct", rs[1])>>]

\* download_chat_attachments entered for the messages of chat c
DlLoop(c) ==
    [pc |-> "loop", chat |-> c, items |-> PlanFrom(messages, 1).items,
     raises |-> PlanFrom(messages, 1).raises, pos |-> 1, downloaded |-> 0, failed |-> 0]

\* a request answered with a result, or a file written
Event(c, kind) == [chat |-> c, kind |-> kind, ok |-> TRUE]

\* a request and whether it was answered with a result
Asked(c, kind, ok) == [chat |-> c, kind |-> kind, ok |-> ok]

\* download_chat_attachments is called on the messages, after the extraction
DownloadStart ==
    /\ dl.pc = "idle"
    /\ runs # <<>>
    /\ ~runs[1].raised
    /\ ex.pc = "none"
    /\ dl' = DlLoop(0)
    /\ UNCHANGED <<authVars, travVars, resVars, saveVars, messages, runs, fnVars, expVars>>

Tally_SuccessOnly(d, success) ==
    [d EXCEPT !.pos = @ + 1, !.downloaded = IF success THEN @ + 1 ELSE @]

\* "if success: downloaded += 1 else: failed += 1", and on to the next item
Tally(d, success) ==
    [d EXCEPT !.pos = @ + 1,
              !.downloaded = IF success THEN @ + 1 ELSE @,
              !.failed = IF success THEN @ ELSE @ + 1]

\* the next download of the loops, counted as downloaded or failed
DownloadItem ==
    /\ dl.pc = "loop"
    /\ dl.pos <= Len(dl.items)
    /\ \E rs \in [1..Len(Attempts) -> ChatAnswers] :
        LET done == ResolveItem(dl.items[dl.pos], files, rs)
        IN  /\ ex.pc # "none" => (done.success \/ ex.failures < MaxFailures)
            /\ files' = done.files
            /\ attempts' = attempts \o done.attempts
            /\ ret' = Returns(done.success, done.filepath)
            /\ dl' = Tally(dl, done.success)
            /\ events' = events \o [n \in 1..Len(done.attempts) |->
                                        Asked(dl.chat, "resolve", done.attempts[n].status = 200)]
            /\ ex' = IF ex.pc = "none" \/ done.success THEN ex
                     ELSE [ex EXCEPT !.failures = @ + 1]
    /\ UNCHANGED <<authVars, travVars, impl, rpc, attachment, files0,
                   saveVars, messages, runs, fnVars, cfg, server>>

\* return downloaded, failed; or the exception of a null list or object
DownloadReturn ==
    /\ dl.pc = "loop"
    /\ dl.pos > Len(dl.items)
    /\ dl' = [dl EXCEPT !.pc = IF dl.raises THEN "raised" ELSE "returned"]
    /\ UNCHANGED <<authVars, travVars, resVars, saveVars, messages, runs, fnVars, expVars>>

----------------------------------------------------------------------------
(* export_all *)

MaxChats   == 2      \* chats on the server
MaxPerPage == 1      \* messages on one page of a chat

NoConfig == [MODE |-> "", EXPORT_ATTACHMENTS |-> FALSE, EXPORT_ATTACHMENTS_MODE |-> ""]

\* the attributes export_all reads; src/config.py defines no
\* EXPORT_ATTACHMENTS_MODE ("unset"), the other values are those export_all
\* compares it with
Configs ==
    [MODE : {"prod", "test"}, EXPORT_ATTACHMENTS : {FALSE},
     EXPORT_ATTACHMENTS_MODE : {"unset"}]
    \cup [MODE : {"prod", "test"}, EXPORT_ATTACHMENTS : {TRUE},
          EXPORT_ATTACHMENTS_MODE : {"unset", "csv", "download", "both"}]

\* the chats a server may hold: a system message; a message with a file
\* reference and an inline image, then a system message; a message whose body
\* is null; a message whose attachments are null
ChatKinds ==
    {<<Message(Null, Value(<<>>), Value(BodyPlain))>>,
     <<Message(Ana, Value(<<ReferenceAttachment>>), Value(BodyImage)),
       Message(Null, Value(<<>>), Value(BodyPlain))>>,
     <<Message(Ana, Value(<<>>), Null)>>,
     <<Message(Ana, Null, Value(BodyLink))>>}

Servers == UNION { [1..n -> ChatKinds] : n \in 0..MaxChats }

ExIdle ==
    [pc |-> "none", cause |-> "", fetched |-> 0, chats |-> <<>>, i |-> 0,
     exported_chats |-> 0, total_messages |-> 0, total_attachments |-> 0,
     failures |-> 0]

\* what a call that uses make_request may end in: its result, no result after
\* a failed request, or the exception of a login that fails after a 401
Outcomes == {"ok", "failed", "login"}

Allowed(outcome) == outcome = "ok" \/ ex.failures < MaxFailures

Charge(e, outcome) == IF outcome = "ok" THEN e ELSE [e EXCEPT !.failures = @ + 1]

Raise(e, cause) == [e EXCEPT !.pc = "raised", !.cause = cause]

\* the banner: config.EXPORT_ATTACHMENTS_MODE is read when attachments are on
ExportBanner ==
    /\ ex.pc = "start"
    /\ ex' = IF cfg.EXPORT_ATTACHMENTS /\ cfg.EXPORT_ATTACHMENTS_MODE = "unset"
             THEN Raise(ex, "AttributeError")
             ELSE [ex EXCEPT !.pc = "connect"]
    /\ UNCHANGED <<authVars, travVars, resVars, saveVars, chatVars, fnVars, cfg, server, events>>

\* success, auth_message = self.authenticator.test_connection()
ExportConnect ==
    /\ ex.pc = "connect"
    /\ \E outcome \in {"ok", "failed"} :
        /\ Allowed(outcome)
        /\ events' = Append(events, Asked(0, "connect", outcome = "ok"))
        /\ ex' = [Charge(ex, outcome) EXCEPT
                    !.pc = IF outcome = "ok" THEN "userinfo" ELSE "returned"]
    /\ UNCHANGED <<authVars, travVars, resVars, saveVars, chatVars, fnVars, cfg, server>>

ExportUserInfo_GoesOn ==
    /\ ex.pc = "userinfo"
    /\ \E outcome \in Outcomes :
        /\ Allowed(outcome)
        /\ events' = Append(events, Asked(0, "user", outcome = "ok"))
        /\ ex' = IF outcome = "login" THEN Raise(Charge(ex, outcome), "login")
                 ELSE [Charge(ex, outcome) EXCEPT !.pc = "list"]
    /\ UNCHANGED <<authVars, travVars, resVars, saveVars, chatVars, fnVars, cfg, server>>

\* if not self.get_user_info(): return
ExportUserInfo ==
    /\ ex.pc = "userinfo"
    /\ \E outcome \in Outcomes :
        /\ Allowed(outcome)
        /\ events' = Append(events, Asked(0, "user", outcome = "ok"))
        /\ ex' = IF outcome = "login" THEN Raise(Charge(ex, outcome), "login")
                 ELSE [Charge(ex, outcome) EXCEPT
                          !.pc = IF outcome = "ok" THEN "list" ELSE "returned"]
    /\ UNCHANGED <<authVars, travVars, resVars, saveVars, chatVars, fnVars, cfg, server>>

\* chats[:1] in test mode
Kept_(chats) == IF cfg.MODE = "test" THEN SubSeq(chats, 1, 1) ELSE chats

\* chats = self.get_my_chats(); "if not chats: return"; the test-mode cut
ExportChats ==
    /\ ex.pc = "list"
    /\ \E outcome \in Outcomes :
        /\ Allowed(outcome)
        /\ events' = Append(events, Asked(0, "list", outcome = "ok"))
        /\ LET chats == IF outcome = "ok" THEN [n \in 1..Len(server) |-> n] ELSE <<>>
           IN  ex' = IF outcome = "login" THEN Raise(Charge(ex, outcome), "login")
                     ELSE IF chats = <<>>
                     THEN [Charge(ex, outcome) EXCEPT !.pc = "returned"]
                     ELSE [Charge(ex, outcome) EXCEPT
                              !.pc = "chat", !.fetched = Len(chats),
                              !.chats = Kept_(chats), !.i = 1]
    /\ UNCHANGED <<authVars, travVars, resVars, saveVars, chatVars, fnVars, cfg, server>>

\* for i, chat in enumerate(chats, 1): the directories of the chat are made
\* and get_messages_from_chat(chat['id'], chat) is called
ExportMessages ==
    /\ ex.pc = "chat"
    /\ ex.i <= Len(ex.chats)
    /\ ex' = [ex EXCEPT !.pc = "paging"]
    /\ messages' = <<>>
    /\ files' = EmptyDir
    /\ runs' = <<>>
    /\ dl' = DlIdle
    /\ UNCHANGED <<authVars, travVars, impl, rpc, attachment, files0, attempts, ret,
                   saveVars, fnVars, cfg, server, events>>

\* the messages of the chat from the one at position from on, one page of them
PageFrom(listed, from) ==
    [k \in 1..Min({MaxPerPage, Len(listed) - from + 1}) |->
        [listed[from + k - 1] EXCEPT !.id = MessageIds[from + k - 1]]]

\* where export_all goes on after get_messages_from_chat: "if chat_messages:"
AfterMessages(e, chat_messages) ==
    IF chat_messages = <<>> THEN [e EXCEPT !.pc = "chat", !.i = @ + 1]
    ELSE [e EXCEPT !.pc = "excel"]

\* one page of get_messages_from_chat: the loop ends on a page without
\* @odata.nextLink and on a request without result, with the messages so far
ExportPage ==
    /\ ex.pc = "paging"
    /\ \E outcome \in Outcomes :
        /\ Allowed(outcome)
        /\ events' = Append(events, Asked(ex.i, "messages", outcome = "ok"))
        /\ LET listed == server[ex.chats[ex.i]]
               chat_messages ==
                   IF outcome = "ok" THEN messages \o PageFrom(listed, Len(messages) + 1)
                   ELSE messages
           IN  /\ messages' = chat_messages
               /\ ex' = IF outcome = "login" THEN Raise(Charge(ex, outcome), "login")
                        ELSE IF outcome = "ok" /\ Len(chat_messages) < Len(listed)
                        THEN ex
                        ELSE AfterMessages(Charge(ex, outcome), chat_messages)
    /\ UNCHANGED <<authVars, travVars, resVars, saveVars, runs, dl, fnVars, cfg, server>>

\* len(msg.get('attachments', [])) raises on a null list
ExcelRaises(msgs) == \E k \in 1..Len(msgs) : msgs[k].attachments.is = "null"

\* self.save_chat_to_excel(chat_messages, chat_dir, chat_display)
ExportExcel ==
    /\ ex.pc = "excel"
    /\ IF ExcelRaises(messages)
       THEN /\ ex' = Raise(ex, "TypeError")
            /\ events' = events
       ELSE /\ ex' = [ex EXCEPT !.pc = IF cfg.EXPORT_ATTACHMENTS THEN "extract" ELSE "count"]
            /\ events' = Append(events, Event(ex.i, "excel"))
    /\ UNCHANGED <<authVars, travVars, resVars, saveVars, chatVars, fnVars, cfg, server>>

\* attachments_info = self.extract_chat_attachments_info(chat_messages) and
\* the CSV written in the modes csv and both
ExportExtract ==
    /\ ex.pc = "extract"
    /\ runs' = <<extract_chat_attachments_info(messages)>>
    /\ IF runs'[1].raised
       THEN /\ ex' = Raise(ex, "AttributeError")
            /\ events' = events
       ELSE /\ ex' = [ex EXCEPT
                        !.pc = IF cfg.EXPORT_ATTACHMENTS_MODE \in {"download", "both"}
                               THEN "download" ELSE "count"]
            /\ events' = IF /\ runs'[1].attachments_info # <<>>
                            /\ cfg.EXPORT_ATTACHMENTS_MODE \in {"csv", "both"}
                         THEN Append(events, Event(ex.i, "csv"))
                         ELSE events
    /\ UNCHANGED <<authVars, travVars, resVars, saveVars, messages, dl, fnVars, cfg, server>>

\* downloaded_count, failed_count = self.download_chat_attachments(...): the call
ExportDownload ==
    /\ ex.pc = "download"
    /\ dl' = DlLoop(ex.i)
    /\ ex' = [ex EXCEPT !.pc = "downloading"]
    /\ UNCHANGED <<authVars, travVars, resVars, saveVars, messages, runs, fnVars,
                   cfg, server, events>>

DownloadDone_Always(d) == TRUE

\* the call of download_chat_attachments has returned or raised
DownloadDone(d) == d.pc # "loop"

\* the totals of the chat, the pause, and on to the next chat
ExportCount ==
    /\ \/ ex.pc = "count"
       \/ ex.pc = "downloading" /\ DownloadDone(dl)
    /\ ex' = IF dl.pc = "raised" THEN Raise(ex, "AttributeError")
             ELSE [ex EXCEPT
                     !.pc = "chat", !.i = @ + 1,
                     !.exported_chats = @ + 1,
                     !.total_messages = @ + Len(messages),
                     !.total_attachments =
                         @ + (IF runs = <<>> THEN 0 ELSE Len(runs[1].attachments_info))]
    /\ UNCHANGED <<authVars, travVars, resVars, saveVars, chatVars, fnVars, cfg, server, events>>

\* the loop is over: the summary is printed and export_all returns
ExportSummary ==
    /\ ex.pc = "chat"
    /\ ex.i > Len(ex.chats)
    /\ ex' = [ex EXCEPT !.pc = "returned"]
    /\ UNCHANGED <<authVars, travVars, resVars, saveVars, chatVars, fnVars, cfg, server, events>>

----------------------------------------------------------------------------
(* Specification of one traversal *)

ExtIdle ==
    /\ saves = <<>>
    /\ procs = <<>>
    /\ messages = <<>>
    /\ runs = <<>>
    /\ dl = DlIdle
    /\ arg = <<>>
    /\ answer = None
    /\ cfg = NoConfig
    /\ server = <<>>
    /\ ex = ExIdle
    /\ events = <<>>
    /\ calls = <<>>

ResIdle ==
    /\ impl = "exporter"
    /\ rpc = "idle"
    /\ attachment = None
    /\ files = EmptyDir
    /\ files0 = EmptyDir
    /\ attempts = <<>>
    /\ ret = None

\* DeviceChatExporter.__init__: the authenticator logs in once, headers carry token 1
AuthInit ==
    /\ access_token = 1
    /\ headers = 1
    /\ minted = 1
    /\ invalidated = 0

TravIdle ==
    /\ clock = 0
    /\ trav = "none"
    /\ pc = "idle"
    /\ url = 0
    /\ params = None
    /\ result = <<>>
    /\ data = None
    /\ response = NoResponse
    /\ call = [url |-> 0, params |-> None]
    /\ depth = 0
    /\ nbad = 0
    /\ log = <<>>

Init ==
    /\ AuthInit
    /\ pages \in PageChains
    /\ TravIdle
    /\ ResIdle
    /\ ExtIdle

Next ==
    \/ get_my_chats
    \/ get_messages_from_chat
    \/ CallMakeRequest
    \/ ReturnList
    \/ RequestsGet
    \/ On429
    \/ On401
    \/ On401LoginFails
    \/ OnSuccess
    \/ OnError
    \/ LoopBody

Spec == Init /\ [][Next]_vars

----------------------------------------------------------------------------
(* Specification of make_request running to its end: the traversal of a    *)
(* chat of one page, every step of the program taken sooner or later       *)

InitRetry ==
    /\ AuthInit
    /\ pages \in {ch \in PageChains : Len(ch) = 1}
    /\ TravIdle
    /\ ResIdle
    /\ ExtIdle

SpecRetry == InitRetry /\ [][Next]_vars /\ WF_vars(Next)

----------------------------------------------------------------------------
(* Specification of one resolution *)

InitResolve ==
    /\ AuthInit
    /\ pages = <<[hasValue |-> FALSE, value |-> <<>>, nextLink |-> 0]>>
    /\ TravIdle
    /\ impl \in {"exporter", "downloader"}
    /\ \E a \in References :
        /\ (impl = "downloader" => a.kind = "reference")
        /\ attachment = Some(a)
    /\ \E k \in 0..MaxExisting : files = Existing(k)
    /\ files0 = files
    /\ rpc = "start"
    /\ attempts = <<>>
    /\ ret = None
    /\ ExtIdle

NextResolve ==
    \/ ExporterStart
    \/ ExporterTry1
    \/ ExporterTry2
    \/ ExporterTry3
    \/ UrlFileDownload
    \/ DownloaderStart
    \/ DownloaderTry2
    \/ DownloaderTry3

SpecResolve == InitResolve /\ [][NextResolve]_vars

----------------------------------------------------------------------------
(* Specification of a chat's messages fetched and then one of their         *)
(* references resolved, by the same exporter                                *)

\* a file of the document library, and a file link of a body
Fetched ==
    {[kind |-> "reference", hasUrl |-> TRUE, host |-> "vendor", mention |-> FALSE,
      basename |-> NameA, name |-> None, id |-> None],
     [kind |-> "url_file", hasUrl |-> TRUE, host |-> "other", mention |-> FALSE,
      basename |-> NameA, name |-> None, id |-> None]}

InitRefresh ==
    /\ AuthInit
    /\ pages \in {ch \in PageChains : Len(ch) = 1}
    /\ TravIdle
    /\ impl = "exporter"
    /\ attachment \in {Some(a) : a \in Fetched}
    /\ files = EmptyDir
    /\ files0 = EmptyDir
    /\ rpc = "start"
    /\ attempts = <<>>
    /\ ret = None
    /\ ExtIdle

\* the traversal; once it has returned, the resolution
NextRefresh ==
    \/ Next
    \/ pc = "done" /\ ExporterStart
    \/ pc = "done" /\ ExporterTry1
    \/ pc = "done" /\ ExporterTry2
    \/ pc = "done" /\ ExporterTry3
    \/ pc = "done" /\ UrlFileDownload

SpecRefresh == InitRefresh /\ [][NextRefresh]_vars

----------------------------------------------------------------------------
(* Specification of successive saves: download_file called again and again *)
(* on one attachments directory, by one thread                             *)

MaxSaves == 3        \* download_file calls in one behaviour

SuffixedA == Numbered(NameA, 1)

\* the names the saves suggest
SaveNames == {NameA, NameOdd, SuffixedA}

\* the URL of the i-th call; its body is told apart by it
SaveUrls == <<"u1", "u2", "u3", "u4", "u5", "u6">>

\* directories the first save may find: any of NameA, NameA_1, ... present
SaveDirs ==
    { [n \in D |-> <<"old", "all">>] :
        D \in SUBSET {IF i = 0 THEN NameA ELSE Numbered(NameA, i) : i \in 0..MaxExisting} }

SaveRecord(filename, r, out) ==
    [filename |-> filename, status |-> r.status, stream |-> r.stream,
     url |-> SaveUrls[Len(saves) + 1],
     success |-> out.success, filepath |-> out.filepath,
     before |-> files, after |-> out.files]

\* one whole call download_file(url, filename, attachments_dir)
Save ==
    /\ Len(saves) < MaxSaves
    /\ \E filename \in SaveNames, r \in DownloadAnswers :
        LET out == download_file(SaveUrls[Len(saves) + 1], filename, r)
        IN  /\ files' = out.files
            /\ ret' = Returns(out.success, out.filepath)
            /\ saves' = Append(saves, SaveRecord(filename, r, out))
    /\ UNCHANGED <<authVars, travVars, impl, rpc, attachment, files0, attempts, procs, chatVars, fnVars, expVars>>

InitSave ==
    /\ AuthInit
    /\ pages = <<[hasValue |-> FALSE, value |-> <<>>, nextLink |-> 0]>>
    /\ TravIdle
    /\ impl = "exporter"
    /\ rpc = "idle"
    /\ attachment = None
    /\ files \in SaveDirs
    /\ files0 = files
    /\ attempts = <<>>
    /\ ret = None
    /\ saves = <<>>
    /\ procs = <<>>
    /\ messages = <<>>
    /\ runs = <<>>
    /\ dl = DlIdle
    /\ arg = <<>>
    /\ answer = None
    /\ cfg = NoConfig
    /\ server = <<>>
    /\ ex = ExIdle
    /\ events = <<>>
    /\ calls = <<>>

NextSave == Save

SpecSave == InitSave /\ [][NextSave]_vars

----------------------------------------------------------------------------
(* Specification of two download_file executions interleaved on one        *)
(* directory: every file-system call of the function is one step           *)

ChunksPerBody == 2   \* chunks iter_content yields for a whole body

Executions == {1, 2}

RaceNames == {NameA, NameOdd}

Chunk(p, k) == [by |-> p, chunk |-> k]
Hole == Chunk(0, 0)

\* the bytes execution p's response carries
WholeBody(p) == [k \in 1..ChunksPerBody |-> Chunk(p, k)]

\* chunks the stream yields before it ends or raises
Yields(stream) ==
    IF stream = "all" THEN ChunksPerBody ELSE IF stream = "cut" THEN 1 ELSE 0

RaceDirs ==
    { [n \in D |-> <<Hole>>] :
        D \in SUBSET {IF i = 0 THEN NameA ELSE Numbered(NameA, i) : i \in 0..MaxExisting} }

Exists_Reserved(path) ==
    \/ path \in DOMAIN files
    \/ \E q \in Executions : procs[q].pc = "open" /\ procs[q].filepath = path

\* os.path.exists(filepath)
Exists(path) == path \in DOMAIN files

\* f.write(chunk) on a handle whose position is offset
WriteAt(content, offset, c) ==
    [i \in 1..(IF offset + 1 > Len(content) THEN offset + 1 ELSE Len(content)) |->
        IF i = offset + 1 THEN c
        ELSE IF i <= Len(content) THEN content[i] ELSE Hole]

ProcIdle ==
    [pc |-> "call", status |-> 0, stream |-> "none", original |-> <<>>,
     filepath |-> <<>>, counter |-> 0, offset |-> 0, wrote |-> FALSE,
     success |-> FALSE, retpath |-> None]

\* response = requests.get(url, headers=self.headers, stream=True)
RaceRequest(p) ==
    /\ procs[p].pc = "call"
    /\ \E filename \in RaceNames, r \in DownloadAnswers :
        procs' = [procs EXCEPT ![p] =
            IF r.status = 200
            THEN [@ EXCEPT !.pc = "check", !.status = r.status, !.stream = r.stream,
                           !.original = sanitize_filename(filename),
                           !.filepath = sanitize_filename(filename),
                           !.counter = 1]
            ELSE [@ EXCEPT !.pc = "done", !.status = r.status, !.stream = r.stream]]
    /\ UNCHANGED <<authVars, travVars, resVars, saves, chatVars, fnVars, expVars>>

\* while os.path.exists(filepath): ... one evaluation of the loop condition
RaceCheck(p) ==
    /\ procs[p].pc = "check"
    /\ procs' = [procs EXCEPT ![p] =
            IF Exists(procs[p].filepath)
            THEN [@ EXCEPT !.filepath = Numbered(procs[p].original, procs[p].counter),
                           !.counter = @ + 1]
            ELSE [@ EXCEPT !.pc = "open"]]
    /\ UNCHANGED <<authVars, travVars, resVars, saves, chatVars, fnVars, expVars>>

\* open(filepath, 'wb'): creates the file or truncates it
RaceOpen(p) ==
    /\ procs[p].pc = "open"
    /\ files' = [n \in DOMAIN files \cup {procs[p].filepath} |->
                    IF n = procs[p].filepath THEN <<>> ELSE files[n]]
    /\ procs' = [procs EXCEPT ![p] = [@ EXCEPT !.pc = "write", !.offset = 0]]
    /\ UNCHANGED <<authVars, travVars, impl, rpc, attachment, files0, attempts, ret, saves, chatVars, fnVars, expVars>>

\* for chunk in response.iter_content(...): f.write(chunk)
RaceWrite(p) ==
    /\ procs[p].pc = "write"
    /\ procs[p].offset < Yields(procs[p].stream)
    /\ files' = [files EXCEPT ![procs[p].filepath] =
                    WriteAt(@, procs[p].offset, Chunk(p, procs[p].offset + 1))]
    /\ procs' = [procs EXCEPT ![p] = [@ EXCEPT !.offset = @ + 1, !.wrote = TRUE]]
    /\ UNCHANGED <<authVars, travVars, impl, rpc, attachment, files0, attempts, ret, saves, chatVars, fnVars, expVars>>

\* return True, filepath  /  except Exception: return False, None
RaceReturn(p) ==
    /\ procs[p].pc = "write"
    /\ procs[p].offset = Yields(procs[p].stream)
    /\ procs' = [procs EXCEPT ![p] =
            IF procs[p].stream = "all"
            THEN [@ EXCEPT !.pc = "done", !.success = TRUE,
                           !.retpath = Some(procs[p].filepath)]
            ELSE [@ EXCEPT !.pc = "done"]]
    /\ UNCHANGED <<authVars, travVars, resVars, saves, chatVars, fnVars, expVars>>

InitRace ==
    /\ AuthInit
    /\ pages = <<[hasValue |-> FALSE, value |-> <<>>, nextLink |-> 0]>>
    /\ TravIdle
    /\ impl = "exporter"
    /\ rpc = "idle"
    /\ attachment = None
    /\ files \in RaceDirs
    /\ files0 = files
    /\ attempts = <<>>
    /\ ret = None
    /\ saves = <<>>
    /\ procs = [p \in Executions |-> ProcIdle]
    /\ messages = <<>>
    /\ runs = <<>>
    /\ dl = DlIdle
    /\ arg = <<>>
    /\ answer = None
    /\ cfg = NoConfig
    /\ server = <<>>
    /\ ex = ExIdle
    /\ events = <<>>
    /\ calls = <<>>

NextRace ==
    \E p \in Executions :
        \/ RaceRequest(p)
        \/ RaceCheck(p)
        \/ RaceOpen(p)
        \/ RaceWrite(p)
        \/ RaceReturn(p)

SpecRace == InitRace /\ [][NextRace]_vars

----------------------------------------------------------------------------
(* Specification of the extraction *)

InitExtract ==
    /\ AuthInit
    /\ pages = <<[hasValue |-> FALSE, value |-> <<>>, nextLink |-> 0]>>
    /\ TravIdle
    /\ ResIdle
    /\ saves = <<>>
    /\ procs = <<>>
    /\ messages \in MessageLists
    /\ runs = <<>>
    /\ dl = DlIdle
    /\ arg = <<>>
    /\ answer = None
    /\ cfg = NoConfig
    /\ server = <<>>
    /\ ex = ExIdle
    /\ events = <<>>
    /\ calls = <<>>

NextExtract ==
    \/ Extract
    \/ DownloadStart
    \/ DownloadItem
    \/ DownloadReturn

SpecExtract == InitExtract /\ [][NextExtract]_vars

----------------------------------------------------------------------------
(* Specification of sanitize_filename applied to a name *)

LongLen == 250       \* length of the longest stems

Repeat(c, n) == [i \in 1..n |-> c]

StemLengths ==
    {1, KeepLen - 1, KeepLen, KeepLen + 1, MaxNameLen - Len(PdfExt),
     MaxNameLen - Len(PdfExt) + 1, MaxNameLen, LongLen - Len(PdfExt), LongLen}

LongExt == Chars(".backup_2024")

\* names with no extension, a short one, a long one, and names whose only dot
\* comes early
LongNames ==
    { Repeat(c, n) \o e :
        c \in {"a", "?", " "}, n \in StemLengths,
        e \in {<<>>, PdfExt, Chars(".docx"), LongExt} }
    \cup { Chars("v1.") \o Repeat("a", n) : n \in StemLengths }

Sanitize ==
    /\ answer = None
    /\ answer' = Some(sanitize_filename(arg))
    /\ UNCHANGED <<authVars, travVars, resVars, saveVars, chatVars, arg, calls, expVars>>

InitSanitize ==
    /\ AuthInit
    /\ pages = <<[hasValue |-> FALSE, value |-> <<>>, nextLink |-> 0]>>
    /\ TravIdle
    /\ ResIdle
    /\ saves = <<>>
    /\ procs = <<>>
    /\ messages = <<>>
    /\ runs = <<>>
    /\ dl = DlIdle
    /\ arg \in LongNames
    /\ answer = None
    /\ cfg = NoConfig
    /\ server = <<>>
    /\ ex = ExIdle
    /\ events = <<>>
    /\ calls = <<>>

NextSanitize == Sanitize

SpecSanitize == InitSanitize /\ [][NextSanitize]_vars

----------------------------------------------------------------------------
(* Specification of extract_hosted_content_urls applied to a body *)

MaxPieces == 2       \* pieces of HTML in one body

Piece(html, u, id) == [text |-> html, url |-> u, itemid |-> id]

\* the pieces a body is made of: images with and without itemid, an element
\* that is no image and has an itemid, text, and a link to a file
Pieces ==
    {Piece(Img(Hosted1, "i1"), Some(Chars(Hosted1)), Some(Chars("i1"))),
     Piece(Img(Hosted2, "i2"), Some(Chars(Hosted2)), Some(Chars("i2"))),
     Piece(ImgBare(Hosted1), Some(Chars(Hosted1)), None),
     Piece(ImgBare(Hosted3), Some(Chars(Hosted3)), None),
     Piece("<div itemid=\"d0\">x</div>", None, Some(Chars("d0"))),
     Piece("<p>hi</p>", None, None),
     Piece(Link(OtherUrl), None, None)}

PieceLists == UNION { [1..n -> Pieces] : n \in 0..MaxPieces }

RECURSIVE Joined(_)
\* the body the pieces make, as a string
Joined(pieces) ==
    IF pieces = <<>> THEN "" ELSE pieces[1].text \o Joined(Tail(pieces))

ExtractHosted ==
    /\ answer = None
    /\ answer' = Some(extract_hosted_content_urls(Chars(Joined(arg))))
    /\ UNCHANGED <<authVars, travVars, resVars, saveVars, chatVars, arg, calls, expVars>>

InitHosted ==
    /\ AuthInit
    /\ pages = <<[hasValue |-> FALSE, value |-> <<>>, nextLink |-> 0]>>
    /\ TravIdle
    /\ ResIdle
    /\ saves = <<>>
    /\ procs = <<>>
    /\ messages = <<>>
    /\ runs = <<>>
    /\ dl = DlIdle
    /\ arg \in PieceLists
    /\ answer = None
    /\ cfg = NoConfig
    /\ server = <<>>
    /\ ex = ExIdle
    /\ events = <<>>
    /\ calls = <<>>

NextHosted == ExtractHosted

SpecHosted == InitHosted /\ [][NextHosted]_vars

----------------------------------------------------------------------------
(* Specification of export_all *)

InitExport ==
    /\ AuthInit
    /\ pages = <<[hasValue |-> FALSE, value |-> <<>>, nextLink |-> 0]>>
    /\ TravIdle
    /\ ResIdle
    /\ saves = <<>>
    /\ procs = <<>>
    /\ messages = <<>>
    /\ runs = <<>>
    /\ dl = DlIdle
    /\ arg = <<>>
    /\ answer = None
    /\ cfg \in Configs
    /\ server \in Servers
    /\ ex = [ExIdle EXCEPT !.pc = "start"]
    /\ events = <<>>
    /\ calls = <<>>

NextExport ==
    \/ ExportBanner
    \/ ExportConnect
    \/ ExportUserInfo
    \/ ExportChats
    \/ ExportMessages
    \/ ExportPage
    \/ ExportExcel
    \/ ExportExtract
    \/ ExportDownload
    \/ DownloadItem
    \/ DownloadReturn
    \/ ExportCount
    \/ ExportSummary

SpecExport == InitExport /\ [][NextExport]_vars

----------------------------------------------------------------------------
(* Specification of the authenticator: the methods of a fresh               *)
(* DeviceCodeAuthenticator called one after another                         *)

MaxCalls == 4        \* calls made to the authenticator

\* _device_code_login when count tokens were minted before: the token of the
\* result is cached and returned, a result without token raises
device_code_login(count, granted) ==
    IF granted
    THEN [raised |-> FALSE, token |-> count + 1, access_token |-> count + 1,
          minted |-> count + 1, logins |-> 1]
    ELSE [raised |-> TRUE, token |-> 0, access_token |-> 0, minted |-> count, logins |-> 1]

get_access_token_Fresh(cached, count, granted) == device_code_login(count, granted)

\* get_access_token: "if self.access_token: return self.access_token"
get_access_token(cached, count, granted) ==
    IF cached # 0
    THEN [raised |-> FALSE, token |-> cached, access_token |-> cached,
          minted |-> count, logins |-> 0]
    ELSE device_code_login(count, granted)

\* what GET /me may answer to test_connection: a status, and for a 200
\* whether the body is the JSON object of the user
MeAnswers ==
    {[status |-> 200, body |-> "user"], [status |-> 200, body |-> "garbled"],
     [status |-> 401, body |-> "error"], [status |-> ServerError, body |-> "error"],
     [status |-> RequestException, body |-> "none"]}

NoAnswer == [status |-> RequestException, body |-> "unasked"]

test_connection_OnStatus(got, r) ==
    IF got.raised THEN [success |-> FALSE, asked |-> FALSE]
    ELSE [success |-> r.status = 200, asked |-> TRUE]

\* test_connection once get_headers has run: the request, response.json() and
\* the two .get of the 200 branch are inside the try, "except Exception"
\* returns (False, message)
test_connection(got, r) ==
    IF got.raised THEN [success |-> FALSE, asked |-> FALSE]
    ELSE [success |-> r.status = 200 /\ r.body = "user", asked |-> TRUE]

Called(op, got, r, out) ==
    [op |-> op, cached |-> access_token, count |-> minted, logins |-> got.logins,
     raised |-> got.raised /\ op # "test_connection", returned |-> got.token,
     after |-> got.access_token, minted |-> got.minted,
     status |-> r.status, body |-> r.body, success |-> out]

\* authenticator.get_access_token() or authenticator.get_headers(), whose
\* header carries the token get_access_token returned
AuthGet ==
    /\ Len(calls) < MaxCalls
    /\ \E op \in {"get_access_token", "get_headers"}, granted \in BOOLEAN :
        LET got == get_access_token(access_token, minted, granted)
        IN  /\ access_token' = got.access_token
            /\ minted' = got.minted
            /\ calls' = Append(calls, Called(op, got, NoAnswer, ~got.raised))
    /\ UNCHANGED <<headers, invalidated, travVars, resVars, saveVars, chatVars,
                   arg, answer, expVars>>

\* authenticator.access_token = None, as make_request does on a 401
AuthInvalidate ==
    /\ Len(calls) < MaxCalls
    /\ access_token' = 0
    /\ invalidated' = invalidated + 1
    /\ calls' = Append(calls,
                       Called("invalidate",
                              [raised |-> FALSE, token |-> 0, access_token |-> 0,
                               minted |-> minted, logins |-> 0], NoAnswer, TRUE))
    /\ UNCHANGED <<headers, minted, travVars, resVars, saveVars, chatVars,
                   arg, answer, expVars>>

\* authenticator.test_connection()
AuthTestConnection ==
    /\ Len(calls) < MaxCalls
    /\ \E granted \in BOOLEAN, r \in MeAnswers :
        LET got == get_access_token(access_token, minted, granted)
            out == test_connection(got, r)
        IN  /\ access_token' = got.access_token
            /\ minted' = got.minted
            /\ calls' = Append(calls,
                               Called("test_connection", got,
                                      IF out.asked THEN r ELSE NoAnswer, out.success))
    /\ UNCHANGED <<headers, invalidated, travVars, resVars, saveVars, chatVars,
                   arg, answer, expVars>>

\* DeviceCodeAuthenticator.__init__: self.access_token = None
InitAuth ==
    /\ access_token = 0
    /\ headers = 0
    /\ minted = 0
    /\ invalidated = 0
    /\ pages = <<[hasValue |-> FALSE, value |-> <<>>, nextLink |-> 0]>>
    /\ TravIdle
    /\ ResIdle
    /\ ExtIdle

NextAuth ==
    \/ AuthGet
    \/ AuthInvalidate
    \/ AuthTestConnection

SpecAuth == InitAuth /\ [][NextAuth]_vars

----------------------------------------------------------------------------
(* Properties of the traversal and of make_request *)

Last(s) == s[Len(s)]

Ids(list) == [i \in 1..Len(list) |-> list[i].id]

RECURSIVE ConcatValues(_)
\* the value arrays of pages 1..n, one after the other
ConcatValues(n) ==
    IF n = 0 THEN <<>> ELSE ConcatValues(n - 1) \o GetValue(pages[n])

AllAnswered200 == \A i \in 1..Len(log) : log[i].status = 200

Returned == pc \in {"body", "loop", "done"} /\ log # <<>>

\* C1: when every request of a traversal over the N-page chain succeeds, the
\* list returned is the concatenation of the N value arrays in page order, and
\* the requests issued are exactly one per page, in page order.
C1_Concatenation ==
    (pc = "done" /\ AllAnswered200) =>
        /\ Ids(result) = Ids(ConcatValues(Len(pages)))
        /\ [i \in 1..Len(log) |-> log[i].url] = [i \in 1..Len(pages) |-> i]

C1_Witness ==
    /\ pc = "done" /\ AllAnswered200
    /\ trav = "messages"
    /\ Len(pages) = 3
    /\ Len(result) = 4
    /\ Len(log) = 3

\* C2: after a 429 answer the next request goes to the same URL and is issued
\* no sooner than Retry-After seconds later (60 when the header is absent);
\* no request is issued in between, and when that next request is answered
\* 200 make_request returns its payload.
C2_RetryAfter429 ==
    \A i \in 1..Len(log) :
        log[i].status = 429 =>
            /\ i < Len(log) =>
                /\ log[i + 1].url = log[i].url
                /\ log[i + 1].at >= log[i].at
                     + (IF log[i].retryAfter = None THEN 60 ELSE log[i].retryAfter[1])
                       * TicksPerSecond
            /\ (i + 1 = Len(log) /\ log[i + 1].status = 200 /\ pc = "body") =>
                data = Some(pages[log[i].url])

C2_Witness ==
    /\ pc = "body"
    /\ Len(log) = 2
    /\ log[1].status = 429 /\ log[1].retryAfter = None
    /\ log[2].status = 200
    /\ log[2].at = 600
    /\ data # None

\* C3: between a 401 answer and the retried request the cached token is
\* invalidated exactly once and exactly one new token is acquired, and the
\* retried request carries the Authorization header of that new token.
C3_RefreshOn401 ==
    \A i \in 1..Len(log) :
        (log[i].status = 401 /\ i < Len(log)) =>
            /\ log[i + 1].invalidated = log[i].invalidated + 1
            /\ log[i + 1].minted = log[i].minted + 1
            /\ log[i + 1].cached = log[i + 1].minted
            /\ log[i + 1].auth = log[i + 1].cached
            /\ log[i + 1].auth # log[i].auth

C3_Witness ==
    /\ pc = "body"
    /\ Len(log) = 2
    /\ log[1].status = 401 /\ log[1].auth = 1
    /\ log[2].status = 200 /\ log[2].auth = 2
    /\ data # None

\* C4: make_request hands no 429 or 401 to its caller: when it has returned,
\* the last answer is neither; it raises only when the login after a 401
\* failed (no recovery path); and every 429/401 answer that did not end in a
\* failed login is followed by a retry, one recursion level deeper.
C4_NeverSurfacesRetryable ==
    /\ Returned => Last(log).status \notin {429, 401}
    /\ pc = "raised" => (Last(log).status = 401 /\ access_token = 0)
    /\ \A i \in 1..Len(log) :
        (log[i].status \in {429, 401} /\ i < Len(log)) =>
            /\ log[i + 1].url = log[i].url
            /\ log[i + 1].depth = log[i].depth + 1

C4_Witness ==
    /\ pc = "body"
    /\ data # None
    /\ Len(log) = 3
    /\ log[1].status = 429
    /\ log[2].status = 401
    /\ log[3].status = 200

Failed(e) == e.status \in {ServerError, RequestException}

\* C5: a page request that ends in another non-2xx status or in a transport
\* failure makes make_request return None; it is the last request of the
\* traversal, and the list returned holds exactly the items of the pages
\* fetched before it, in order.
C5_FailureStopsTraversal ==
    /\ \A i \in 1..Len(log) : Failed(log[i]) => i = Len(log)
    /\ (log # <<>> /\ Failed(Last(log)) /\ pc \in {"body", "done"}) => data = None
    /\ (log # <<>> /\ Failed(Last(log)) /\ pc = "done") =>
        Ids(result) = Ids(ConcatValues(Last(log).url - 1))

C5_Witness ==
    /\ pc = "done"
    /\ Len(log) = 3
    /\ log[3].status = ServerError /\ log[3].url = 3
    /\ Len(result) = 3

----------------------------------------------------------------------------
(* Properties of the resolution *)

Forms(as) == [i \in 1..Len(as) |-> as[i].form]

IsPrefix(p, q) == Len(p) <= Len(q) /\ SubSeq(q, 1, Len(p)) = p

\* an attempt succeeded: status 200 and the body written in full
Succeeded(t) == t.status = 200 /\ t.stream = "all"

Ref == attachment[1]

VendorHosted == Ref.kind = "reference" /\ Ref.hasUrl /\ Ref.host = "vendor"

NewFiles == (DOMAIN files) \ (DOMAIN files0)

C7_SecondStrategyWins ==
    ( /\ impl = "exporter"
      /\ VendorHosted
      /\ rpc = "returned"
      /\ \E i \in 1..Len(attempts) :
            attempts[i].form = "shares" /\ attempts[i].status = Forbidden
      /\ \E j \in 1..Len(attempts) :
            attempts[j].form = "direct" /\ Succeeded(attempts[j]) )
    =>
        /\ Forms(attempts) = <<"shares", "direct">>
        /\ ret[1].success
        /\ ret[1].filepath # None
        /\ ret[1].filepath[1] \in NewFiles
        /\ files[ret[1].filepath[1]] = <<"direct", "all">>
        /\ NewFiles = {ret[1].filepath[1]}

C7_Witness ==
    /\ impl = "exporter"
    /\ VendorHosted
    /\ rpc = "returned"
    /\ Len(attempts) = 2
    /\ attempts[1].form = "shares" /\ attempts[1].status = Forbidden
    /\ attempts[2].form = "direct" /\ Succeeded(attempts[2])
    /\ ret[1].success
    /\ ret[1].filepath = Some(Numbered(NameA, 2))

\* the strategies that apply to a reference, in order
Applicable(a) ==
    IF ~a.hasUrl THEN <<>>
    ELSE IF HasSharepoint(a) THEN <<"shares", "direct", "drive">>
    ELSE <<"direct">>

\* C8: in the exporter no failure of a single attempt leaves the resolver as
\* an error or ends the resolution early: a resolution that has returned
\* reports failure exactly when every applicable strategy was attempted and
\* all of them failed, and reports success exactly when its last attempt
\* succeeded.
C8_FailureOnlyOnExhaustion ==
    (impl = "exporter" /\ Ref.kind = "reference") =>
        /\ rpc # "raised"
        /\ rpc = "returned" =>
            /\ ~ret[1].success <=>
                  /\ Forms(attempts) = Applicable(Ref)
                  /\ \A i \in 1..Len(attempts) : ~Succeeded(attempts[i])
            /\ ret[1].success <=>
                  (attempts # <<>> /\ Succeeded(attempts[Len(attempts)]))

C8_Witness ==
    /\ impl = "exporter"
    /\ VendorHosted
    /\ rpc = "returned"
    /\ ~ret[1].success
    /\ Len(attempts) = 3
    /\ attempts[1].status = RequestException
    /\ attempts[2].status = NotFound
    /\ attempts[3].stream = "cut"

\* C9: a structured reference with a URL whose host is not the vendor is
\* attempted with exactly one request, the direct URL, and the resolution
\* returns the outcome of that attempt.
C9_OtherHostOnlyDirect ==
    (Ref.kind = "reference" /\ Ref.hasUrl /\ Ref.host = "other" /\ rpc = "returned") =>
        /\ Forms(attempts) = <<"direct">>
        /\ ret[1].success = Succeeded(attempts[1])

\* C10: a resolution that has returned has created at most one new file in
\* the attachments directory, and has created one exactly when it reports
\* success.
C10_AtMostOneFile ==
    rpc = "returned" =>
        /\ Cardinality(NewFiles) <= 1
        /\ Cardinality(NewFiles) = 1 <=> ret[1].success

----------------------------------------------------------------------------
(* Properties of successive saves *)

\* name.ext, name_1.ext, name_2.ext, ... written out without the code's loop
Candidate(stem, ext, k) ==
    IF k = 0 THEN stem \o ext ELSE stem \o <<"_">> \o DecStr(k) \o ext

StemA == <<"a">>

AllSavedAs(name) ==
    \A i \in 1..Len(saves) :
        saves[i].filename = name /\ saves[i].status = 200 /\ saves[i].stream = "all"

\* C11: download_file never overwrites: the path a successful save returns did
\* not exist before it, every file that existed before a save is unchanged
\* after it, and every saved path still holds the bytes of its own save.
\* Successive successful saves of name.ext take name.ext, name_1.ext, ...: each
\* takes the candidate with the smallest free number, so in a directory that
\* held none of them the i-th save returns name_(i-1).ext.
C11_NeverOverwrites ==
    /\ \A i \in 1..Len(saves) :
        /\ \A n \in DOMAIN saves[i].before :
              n \in DOMAIN saves[i].after /\ saves[i].after[n] = saves[i].before[n]
        /\ saves[i].success =>
              /\ saves[i].filepath[1] \notin DOMAIN saves[i].before
              /\ files[saves[i].filepath[1]] = <<saves[i].url, "all">>
    /\ AllSavedAs(NameA) =>
        \A i \in 1..Len(saves) :
            \E k \in 0..(MaxExisting + MaxSaves) :
                /\ saves[i].filepath = Some(Candidate(StemA, PdfExt, k))
                /\ \A j \in 0..(k - 1) :
                      Candidate(StemA, PdfExt, j) \in DOMAIN saves[i].before
    /\ (AllSavedAs(NameA) /\ files0 = EmptyDir) =>
        \A i \in 1..Len(saves) :
            saves[i].filepath = Some(Candidate(StemA, PdfExt, i - 1))

C11_Witness ==
    /\ AllSavedAs(NameA)
    /\ files0 = EmptyDir
    /\ Len(saves) = 3
    /\ saves[3].filepath = Some(<<"a", "_", "2", ".", "p", "d", "f">>)
    /\ files[NameA] = <<"u1", "all">>
    /\ files[SuffixedA] = <<"u2", "all">>

\* C28: a download_file whose request is answered with a status other than
\* 200, or raises, returns (False, None) and leaves the directory as it was:
\* the same names with the same contents.
C28_FailureLeavesDirectory ==
    /\ \A i \in 1..Len(saves) :
          saves[i].status # 200 =>
              /\ ~saves[i].success
              /\ saves[i].filepath = None
              /\ saves[i].after = saves[i].before
    /\ saves # <<>> => files = saves[Len(saves)].after

\* a save, then a 404 and a request that raises on the directory it left
C28_Witness ==
    /\ Len(saves) = 3
    /\ saves[1].success
    /\ saves[2].status = NotFound
    /\ saves[3].status = RequestException
    /\ files = saves[1].after
    /\ files # files0
    /\ ret = Returns(FALSE, None)

----------------------------------------------------------------------------
(* Properties of interleaved saves *)

BothSavedTo(path) ==
    \A p \in Executions : procs[p].pc = "done" /\ procs[p].retpath = Some(path)

\* C12: the collision check is a check followed, later, by a create. An
\* execution whose check of a path runs while the other execution has found
\* that same path free and not yet opened it also finds it free and selects
\* it; the second open truncates what the first has written; and when both
\* executions have returned the same path, the file does not hold the whole
\* body of both: the content of one is lost, or the two are mixed.
C12_CheckThenCreate ==
    /\ [][\A p \in Executions : \A q \in Executions \ {p} :
            /\ (/\ procs[p].pc = "open"
                /\ procs[q].pc = "check"
                /\ procs[q].filepath = procs[p].filepath
                /\ procs'[q] # procs[q])
               => (procs'[q].pc = "open" /\ procs'[q].filepath = procs[p].filepath)
            /\ (/\ procs[p].pc = "write"
                /\ procs[q].pc = "open"
                /\ procs[q].filepath = procs[p].filepath
                /\ procs'[q] # procs[q])
               => files'[procs[p].filepath] = <<>>]_vars
    /\ [](\A path \in DOMAIN files :
            BothSavedTo(path) =>
                \E p \in Executions : files[path] # WholeBody(p))

\* both executions returned (True, a.pdf) and a.pdf holds a chunk of each
C12_Witness ==
    /\ BothSavedTo(NameA)
    /\ files[NameA] = <<Chunk(2, 1), Chunk(1, 2)>>
    /\ NameA \notin DOMAIN files0

----------------------------------------------------------------------------
(* Properties of the extraction *)

Returned_(i) == i \in 1..Len(runs) /\ ~runs[i].raised

\* the references a run produced for message k, in the order produced
RefsOf(i, k) ==
    SelectSeq(runs[i].attachments_info, LAMBDA r : r.message_id = messages[k].id)

\* bodies with one hosted-content URL and one itemid attribute, with the URL
\* and the name expected for it
HostedCases ==
    {[body |-> BodyImage, url |-> Chars(Hosted1), name |-> Chars("image_i1.jpg")],
     [body |-> BodyMixed, url |-> Chars(Hosted1), name |-> Chars("image_i1.jpg")],
     [body |-> BodyKeyword, url |-> Chars(Hosted3), name |-> Chars("image_i3.jpg")]}

\* C13: for a message whose body holds one hosted-content URL and an itemid
\* attribute, the extraction produces exactly one reference with that URL; it
\* is of kind hosted_image and named image_{itemid}.jpg, so the URL is never
\* reported as a url_file as well.
C13_HostedImageOnce ==
    \A i \in 1..Len(runs) : \A k \in 1..Len(messages) : \A c \in HostedCases :
        (Returned_(i) /\ messages[k].body = Value(c.body)) =>
            LET same == SelectSeq(RefsOf(i, k), LAMBDA r : r.content_url = c.url)
            IN  /\ Len(same) = 1
                /\ same[1].tipo = "hosted_image"
                /\ same[1].attachment_name = c.name

\* a hosted URL that a file pattern matches too, next to a message with a
\* hosted image and a file link
C13_Witness ==
    /\ Len(messages) = 2
    /\ messages[1].body = Value(BodyKeyword)
    /\ messages[2].body = Value(BodyMixed)
    /\ Returned_(1)
    /\ \E j \in 1..Len(RefsOf(1, 2)) : RefsOf(1, 2)[j].tipo = "url_file"

Rank(tipo) ==
    CASE tipo = "attachment" -> 1 [] tipo = "hosted_image" -> 2 [] tipo = "url_file" -> 3

C15_ToleratesMissingFields ==
    \A i \in 1..Len(runs) : ~runs[i].raised

\* C20: the extraction is pure. A call adds its result and nothing else: no
\* request is made, no file is written. No step of the extraction or of the
\* download that follows it, failed resolutions included, changes the
\* messages or a reference already produced, and a call made after the
\* download returns the references of the call before it.
C20_ExtractionIsPure ==
    /\ [][runs' # runs =>
            /\ attempts' = attempts
            /\ files' = files
            /\ log' = log
            /\ dl' = dl]_vars
    /\ [][/\ messages' = messages
          /\ Len(runs') >= Len(runs)
          /\ \A i \in 1..Len(runs) : runs'[i] = runs[i]]_vars
    /\ [](\A i \in 1..Len(runs) : runs[i] = runs[1])

\* a resolution has failed between two extractions that produced references
C20_Witness ==
    /\ Len(runs) = 2
    /\ runs[2].attachments_info # <<>>
    /\ dl.pc = "returned"
    /\ dl.failed >= 1
    /\ dl.downloaded >= 1
    /\ \E i \in 1..Len(attempts) : attempts[i].status = NotFound

----------------------------------------------------------------------------
(* Properties of download_chat_attachments *)

\* the references of the chat as the extraction catalogued them
Catalogued == runs[1].attachments_info

Count(list, Test(_)) == Len(SelectSeq(list, Test))

\* structured attachments whose contentType is / is not 'reference'
TypedReference(r) == r.tipo = "attachment" /\ r.content_type = Chars("reference")
TypedOther(r)     == r.tipo = "attachment" /\ r.content_type # Chars("reference")
UrlMatch(r)       == r.tipo = "url_file"

Resolved == SubSeq(dl.items, 1, dl.pos - 1)

Downloading == dl.pc \in {"loop", "returned"} /\ runs # <<>>

\* C21: of the structured attachments only those typed 'reference' are
\* resolved: the resolutions of structured attachments are as many as the
\* attachments typed 'reference' and each carries the id of one of them; the
\* requests made are at most three for each of these and one for each file
\* link, no file exists that a resolution did not report, and the two counts
\* cover the resolutions made and nothing else.
C21_OnlyReferencesResolved ==
    Downloading =>
        /\ Count(dl.items, LAMBDA a : a.kind = "reference") = Count(Catalogued, TypedReference)
        /\ \A j \in 1..Len(dl.items) :
              dl.items[j].kind = "reference" =>
                  \E n \in 1..Len(Catalogued) :
                      /\ TypedReference(Catalogued[n])
                      /\ dl.items[j].id = Some(Catalogued[n].attachment_id)
        /\ Len(attempts) <= 3 * Count(Resolved, LAMBDA a : a.kind = "reference")
                              + Count(Resolved, LAMBDA a : a.kind = "url_file")
        /\ Cardinality(DOMAIN files) <= dl.downloaded
        /\ dl.downloaded + dl.failed = Len(Resolved)

\* a chat with a card and references has been gone through
C21_Witness ==
    /\ dl.pc = "returned"
    /\ runs # <<>>
    /\ Count(Catalogued, TypedOther) = 2
    /\ Count(Catalogued, TypedReference) = 2
    /\ dl.downloaded >= 1
    /\ dl.failed >= 1

\* C26: the tally counts every resolution attempted exactly once. While the
\* loops run downloaded + failed is the number of resolutions made; when
\* download_chat_attachments returns it is the number of attachments typed
\* 'reference' plus the number of file links found in the bodies; and
\* downloaded is the number of resolutions that succeeded, each of which got
\* one 200 answer and left one file.
C26_TallyCountsEachOnce ==
    Downloading =>
        /\ dl.downloaded + dl.failed = dl.pos - 1
        /\ dl.pc = "returned" =>
              dl.downloaded + dl.failed
                  = Count(Catalogued, TypedReference) + Count(Catalogued, UrlMatch)
        /\ dl.downloaded = Count(attempts, LAMBDA t : t.status = 200)
        /\ dl.downloaded = Cardinality(DOMAIN files)

\* three resolutions, one of a reference after two failed attempts, one of a
\* file link that failed
C26_Witness ==
    /\ dl.pc = "returned"
    /\ dl.downloaded = 2
    /\ dl.failed = 1
    /\ Len(attempts) >= 5
    /\ Count(Catalogued, UrlMatch) >= 1

\* the places of a body where a URL stands that is no incorporated image
FileUrls(body_content) ==
    {i \in 1..Len(body_content) :
        /\ StartsAtNoCase(body_content, i, Https)
        /\ ~Contains(SubSeq(body_content, i, NextQuote(body_content, i) - 1), HostedMarker)}

\* the URLs of the body of a message
UrlsOf(message) ==
    IF message.body.is = "value" THEN Cardinality(FileUrls(message.body.val)) ELSE 0

RECURSIVE UrlsFrom(_, _)
\* the URLs of the bodies of messages k..
UrlsFrom(msgs, k) ==
    IF k > Len(msgs) THEN 0 ELSE UrlsOf(msgs[k]) + UrlsFrom(msgs, k + 1)

\* C31: a URL standing once in the body of a message gives at most one file
\* link: the file links catalogued for a message are at most the URLs of its
\* body, and the file links download_chat_attachments downloads are at most
\* the URLs of the bodies of the chat, whichever patterns a URL satisfies.
C31_OneMatchPerUrl ==
    /\ (runs # <<>> /\ ~runs[1].raised) =>
          \A k \in 1..Len(messages) :
              Count(Catalogued,
                    LAMBDA r : UrlMatch(r) /\ r.message_id = messages[k].id)
                  <= UrlsOf(messages[k])
    /\ Downloading =>
          Count(dl.items, LAMBDA a : a.kind = "url_file") <= UrlsFrom(messages, 1)

----------------------------------------------------------------------------
(* Properties of sanitize_filename *)

\* C17: the name returned has at most 200 characters and none of the
\* characters < > : " / \ | ? *, and when the name given has an extension the
\* name returned ends with it.
C17_BoundedWithExtension ==
    answer # None =>
        /\ Len(answer[1]) <= MaxNameLen
        /\ \A i \in 1..Len(answer[1]) : answer[1][i] \notin InvalidChars
        /\ SplitExt(arg)[2] # <<>> => EndsWith(answer[1], ReplaceInvalid(SplitExt(arg)[2]))

----------------------------------------------------------------------------
(* Properties of the traversal: query parameters *)

FirstUrl == 1

\* C18: every request for the first URL of a traversal, retries included,
\* carries the traversal's query parameters, and every request for a URL taken
\* from @odata.nextLink, retries after 429 and 401 included, carries none.
C18_ParamsOnFirstPageOnly ==
    \A i \in 1..Len(log) :
        IF log[i].url = FirstUrl
        THEN log[i].params = Some(IF trav = "chats" THEN ChatParams ELSE MsgParams)
        ELSE log[i].params = None

\* a continuation request answered 429 or 401 and then sent again
C18_Witness ==
    \E i \in 1..(Len(log) - 1) :
        /\ log[i].url > FirstUrl
        /\ log[i].status \in {429, 401}
        /\ log[i + 1].url = log[i].url
        /\ log[i + 1].depth = log[i].depth + 1
        /\ log[1].params # None

----------------------------------------------------------------------------
(* Properties of extract_hosted_content_urls *)

RECURSIVE Opt(_, _)
\* the values of an optional field of the pieces, in the order of the pieces
Opt(pieces, field) ==
    IF pieces = <<>> THEN <<>>
    ELSE pieces[1][field] \o Opt(Tail(pieces), field)

\* C30: for a body with k hosted-content URLs the function returns k
\* references, with the URLs in the order of the body. When the body has an
\* itemid attribute every reference is named image_{first itemid of the
\* body}.jpg, whichever element the attribute belongs to; when it has none,
\* each reference is named image_{segment}.jpg for a segment of its own URL.
C30_HostedNames ==
    answer # None =>
        LET urls == Opt(arg, "url")
            ids == Opt(arg, "itemid")
            got == answer[1]
        IN  /\ Len(got) = Len(urls)
            /\ \A k \in 1..Len(got) :
                  /\ got[k].url = urls[k]
                  /\ ids # <<>> => got[k].filename = Chars("image_") \o ids[1] \o Chars(".jpg")
                  /\ ids = <<>> =>
                        \E n \in 1..Len(Split(urls[k], "/")) :
                            got[k].filename
                                = Chars("image_") \o Split(urls[k], "/")[n] \o Chars(".jpg")

\* two images, the itemid of the first names both
C30_Witness ==
    /\ answer # None
    /\ Len(answer[1]) = 2
    /\ answer[1][1].url = Chars(Hosted2)
    /\ answer[1][2].url = Chars(Hosted1)
    /\ answer[1][1].filename = Chars("image_i2.jpg")
    /\ answer[1][2].filename = Chars("image_i2.jpg")

----------------------------------------------------------------------------
(* Properties of export_all *)

\* C16: one chat's failed message traversal or one attachment's failed
\* resolution never aborts export_all: once the chat list is fetched,
\* export_all ends only after every chat of the list went through the loop
\* (a login that fails after a 401 is the one fatal failure).
C16_EveryChatProcessed ==
    (ex.pc \in {"raised", "returned"} /\ ex.fetched > 0 /\ ex.cause # "login")
        => (ex.pc = "returned" /\ ex.i > Len(ex.chats))

PagesOf(c) == Cardinality({n \in 1..Len(events) : events[n] = Event(c, "messages")})

\* C19: the events of export_all come chat after chat; within one chat every
\* message-page request precedes the resolutions and the files written, and
\* export_all is at a standstill while download_chat_attachments runs.
C19_OneChatAtATime ==
    /\ \A a \in 1..Len(events) : \A b \in a + 1..Len(events) :
          /\ events[a].chat <= events[b].chat
          /\ (events[a].chat = events[b].chat /\ events[b].kind = "messages")
                => events[a].kind = "messages"
    /\ dl.pc = "loop" => (ex.pc = "downloading" /\ dl.chat = ex.i)

C19_Witness ==
    /\ ex.pc = "returned"
    /\ ex.i = 3
    /\ PagesOf(1) = 2
    /\ \E a \in 1..Len(events) : \E b \in a + 1..Len(events) :
          /\ events[a] = Event(1, "resolve")
          /\ events[b] = Event(2, "messages")
    /\ \E b \in 1..Len(events) : events[b] = Event(2, "resolve")

\* the connection test and get_user_info have both succeeded, in this order,
\* before event b
Admitted(b) ==
    \E a1 \in 1..(b - 1) : \E a2 \in (a1 + 1)..(b - 1) :
        events[a1] = Event(0, "connect") /\ events[a2] = Event(0, "user")

\* C29: export_all lists no chats, requests no messages and enters the loop
\* over the chats (which makes the chat's directories and files) unless the
\* connection test and then get_user_info have succeeded; when one of them
\* fails or the chat list comes out empty, export_all returns having
\* requested no message, written nothing and processed no chat.
C29_NothingBeforeIdentified ==
    /\ \A b \in 1..Len(events) :
          events[b].kind \notin {"connect", "user"} => Admitted(b)
    /\ ex.i > 0 =>
          (Admitted(Len(events) + 1) /\ ex.fetched > 0
           /\ \E b \in 1..Len(events) : events[b] = Event(0, "list"))
    /\ (ex.pc = "returned" /\ ex.i = 0) =>
          /\ \A b \in 1..Len(events) : events[b].chat = 0
          /\ ex.exported_chats = 0
          /\ messages = <<>> /\ files = EmptyDir /\ attempts = <<>>
    /\ (ex.pc = "returned" /\ (~Admitted(Len(events) + 1) \/ ex.fetched = 0)) => ex.i = 0

\* the connection test passed and get_user_info failed on a server with chats
C29_Witness ==
    /\ ex.pc = "returned"
    /\ Len(server) = MaxChats
    /\ events = <<Event(0, "connect"), Asked(0, "user", FALSE)>>

----------------------------------------------------------------------------
(* Properties of the authenticator *)

Getter(c) == c.op \in {"get_access_token", "get_headers"}

\* C22: a token is minted only when none is cached. A getter called while a
\* token is cached returns that token and runs no login; invalidating empties
\* the cache; get_headers called on an empty cache runs the login once, and
\* when the login grants a token that token is new, is cached, and is the one
\* the header returned carries.
C22_MintsOnlyWhenUncached ==
    \A i \in 1..Len(calls) :
        LET c == calls[i]
        IN  /\ c.minted # c.count => c.cached = 0
            /\ (Getter(c) /\ c.cached # 0) =>
                  /\ c.logins = 0
                  /\ ~c.raised
                  /\ c.returned = c.cached
                  /\ c.after = c.cached
            /\ (c.op = "invalidate" /\ i < Len(calls)) => calls[i + 1].cached = 0
            /\ (c.op = "get_headers" /\ c.cached = 0) =>
                  /\ c.logins = 1
                  /\ c.minted <= c.count + 1
                  /\ ~c.raised =>
                        /\ c.minted = c.count + 1
                        /\ c.returned # 0
                        /\ c.after = c.returned
                        /\ \A j \in 1..(i - 1) : calls[j].returned # c.returned

\* login, cached answer, invalidation, login again
C22_Witness ==
    /\ Len(calls) = 4
    /\ calls[1].op = "get_headers" /\ calls[1].returned = 1
    /\ calls[2].op = "get_headers" /\ calls[2].returned = 1 /\ calls[2].logins = 0
    /\ calls[3].op = "invalidate"
    /\ calls[4].op = "get_headers" /\ calls[4].returned = 2 /\ calls[4].logins = 1
    /\ access_token = 2

Tested(c) == c.op = "test_connection"

\* C23 as stated: test_connection never raises and returns True exactly when
\* GET /me answers 200, False for any other status and for any exception of
\* the token or of the request.
C23_TrueExactlyOn200 ==
    \A i \in 1..Len(calls) :
        Tested(calls[i]) =>
            /\ ~calls[i].raised
            /\ calls[i].success <=> calls[i].status = 200

\* C23: test_connection never raises; it returns True exactly when GET /me
\* answers 200 with the JSON object of the user as its body, and False for
\* any other status, for a 200 whose body cannot be read, for a request that
\* raises, and when the login raises, in which case no request is made.
C23_TrueOn200WithUser ==
    \A i \in 1..Len(calls) :
        LET c == calls[i]
        IN  Tested(c) =>
                /\ ~c.raised
                /\ c.success <=> (c.status = 200 /\ c.body = "user")
                /\ c.body = "unasked" <=> (c.cached = 0 /\ c.returned = 0)
                /\ c.cached # 0 => c.logins = 0

\* a failed login, a True, and a 200 that cannot be read
C23_Witness ==
    /\ Len(calls) = 3
    /\ Tested(calls[1]) /\ calls[1].body = "unasked" /\ ~calls[1].success
    /\ Tested(calls[2]) /\ calls[2].success /\ calls[2].logins = 1
    /\ Tested(calls[3]) /\ calls[3].status = 200 /\ ~calls[3].success

----------------------------------------------------------------------------
(* Properties of the exporter's credentials *)

\* C27: no request made after a token refresh carries the token the refresh
\* invalidated. Every page request made after a 401 answer, and every
\* download_file request of the resolution that follows, carries the token
\* most recently acquired and none of the tokens a 401 was answered to.
C27_NoStaleToken ==
    /\ \A i \in 1..Len(log) : \A j \in (i + 1)..Len(log) :
          log[i].status = 401 =>
              (log[j].auth # log[i].auth /\ log[j].auth = log[j].minted)
    /\ \A k \in 1..Len(attempts) :
          /\ attempts[k].auth = minted
          /\ attempts[k].auth = access_token
          /\ \A i \in 1..Len(log) : log[i].status = 401 => attempts[k].auth # log[i].auth

\* two refreshes while the messages were fetched, then three download attempts
C27_Witness ==
    /\ Len(log) = 3
    /\ log[1].status = 401 /\ log[2].status = 401 /\ log[3].status = 200
    /\ Len(attempts) = 3
    /\ attempts[1].auth = 3
    /\ attempts[3].status = 200

----------------------------------------------------------------------------
(* Properties of make_request: retries *)

Retryable == {429, 401}

\* C24: make_request has no retry cap and no timeout. Whatever the depth, a
\* 429 or 401 answer is followed by a retry one level deeper (or, after a
\* 401, by the exception of a login that fails); any other answer and a
\* transport failure end make_request at once; and since the server ends up
\* giving such an answer, a make_request that was called returns or raises.
C24_RetriesUntilOtherAnswer ==
    /\ [][(pc = "handle" /\ response.status \in Retryable) =>
            \/ pc' = "get" /\ depth' = depth + 1 /\ call' = call
            \/ pc' = "raised" /\ response.status = 401]_vars
    /\ [][(pc = "handle" /\ response.status \notin Retryable) =>
            (pc' = "body" /\ depth' = 0)]_vars
    /\ [][clock' # clock =>
            clock' - clock \in {1} \cup {RetryAfterSeconds(response) * TicksPerSecond}]_vars
    /\ (pc = "get") ~> (pc \in {"body", "raised"})

\* a retry for every retryable answer the server gave, a 401 first, until
\* the answer is another one
C24_Witness ==
    /\ pc = "body"
    /\ data # None
    /\ Len(log) = MaxBad + 1
    /\ log[1].status = 401
    /\ \A i \in 1..MaxBad : log[i].status \in Retryable /\ log[i].depth = i
    /\ Last(log).status = 200
    /\ Last(log).depth = MaxBad + 1

\* C25: the retry after a 429 or 401 answer is the same request: same URL,
\* same query parameters (those of the first page, none on a later page); the
\* Authorization header is the same after a 429 and is the one of the newly
\* acquired token after a 401.
C25_RetryIsIdentical ==
    \A i \in 1..(Len(log) - 1) :
        log[i].status \in Retryable =>
            /\ log[i + 1].url = log[i].url
            /\ log[i + 1].params = log[i].params
            /\ log[i].status = 429 => log[i + 1].auth = log[i].auth
            /\ log[i].status = 401 =>
                  (log[i + 1].auth # log[i].auth /\ log[i + 1].auth = log[i + 1].minted)

\* a 429 on the first page of the messages, retried with the parameters; then
\* a 401 on the second page, retried without
C25_Witness ==
    /\ Len(log) = 5
    /\ log[1].status = 429 /\ log[1].params = Some(MsgParams)
    /\ log[2].status = 200 /\ log[2].params = Some(MsgParams) /\ log[2].auth = log[1].auth
    /\ log[3].status = 401 /\ log[3].url = 2 /\ log[3].params = None
    /\ log[4].url = 2 /\ log[4].params = None /\ log[4].auth = 2
    /\ log[5].url = 3

====
